---------------------------- MODULE Spec2Model ----------------------------
(***************************************************************************)
(* A model of the SGX enclave driver core of mosl-dku/guest-sgx: the EPC   *)
(* section pool, one enclave object with its page tree, the add-page       *)
(* worker, the ioctl paths (create, add page, init), the power notifier,   *)
(* the VMA callbacks (open, close, fault) and the page reclaimer.          *)
(*                                                                         *)
(* One enclave is modelled.  Every critical section of the enclave mutex   *)
(* that other threads cannot observe from outside is one action; a         *)
(* critical section is split where the code reads or writes state that     *)
(* another thread touches without the mutex (sgx_vma_open writes           *)
(* encl->flags without it).                                                *)
(*                                                                         *)
(* The environment: the creating process maps the enclave range with one   *)
(* VMA; further address spaces attach by fork (vm_ops->open on the copy of *)
(* a VMA), detach by unmapping (vm_ops->close), touch mapped addresses     *)
(* (vm_ops->fault), and the system may suspend at any time.  The exported  *)
(* sgx_mark_page_reclaimable has no caller in these sources; it is applied *)
(* by the environment to a bound user page.                                *)
(*                                                                         *)
(* sgx_alloc_page, __sgx_free_page, sgx_free_page, sgx_section_put_page    *)
(* and sgx_encl_test_and_clear_young are declared and called in the        *)
(* sources but defined in a file that is not part of them; they follow     *)
(* the natural-language specification (section 4.A/4.B, 4.E).              *)
(***************************************************************************)
EXTENDS Integers, Sequences, FiniteSets, TLC

(* ------------------------------ bounds --------------------------------- *)
NumPages == 2          \* EPC pages in the pool
NumSections == 2       \* sgx_nr_epc_sections
NumAddrs == 2          \* pages of the enclave's address range (ELRANGE)
NumMMs == 2                \* address spaces that can map the enclave
NumVaSlots == 2            \* slots of a version-array page that are told apart
NumCreators == 2           \* threads of one process that call SGX_IOC_ENCLAVE_CREATE
MaxCreates == 3            \* calls of SGX_IOC_ENCLAVE_CREATE in all
SwapdEnclPages == {1, 16, 17, 33}    \* user pages of the enclave ksgxswapd meets
SwapdFreePages == {30, 47, 63, 64}   \* free pages in the pool ksgxswapd meets
SGX_EINIT_SPIN_COUNT == 4    \* calls of EINIT before a sleep
SGX_EINIT_SLEEP_COUNT == 3   \* rounds of spinning

(* -------------------------- program constants -------------------------- *)
SGX_NR_TO_SCAN == 16
SGX_NR_HIGH_PAGES == 64

Pages == 1..NumPages
Sections == 0..(NumSections - 1)
Addrs == 1..NumAddrs
MMs == 1..NumMMs
Creators == 1..NumCreators
EnclIds == 1..MaxCreates
NIL == 0               \* NULL epc page / NULL mm
SECS == 0              \* index of encl->secs: its desc is 0 (sgx_encl_get_index)
EnclPageIds == {SECS} \cup Addrs
NoOwner == -1          \* epc_page->owner == NULL
\* A struct sgx_encl that sgx_encl_alloc has not handed out yet.
NoEncl == [state |-> "unused", refcount |-> 0, secs |-> 0, ret |-> "none"]
ErrPage == -1          \* IS_ERR(epc_page)

SGX_ENCL_INITIALIZED == "INITIALIZED"
SGX_ENCL_DEAD == "DEAD"
SGX_ENCL_SUSPEND == "SUSPEND"
EnclFlags == {SGX_ENCL_INITIALIZED, SGX_ENCL_DEAD, SGX_ENCL_SUSPEND}

VARIABLES
    \* EPC pool (struct sgx_epc_section, struct sgx_epc_page)
    free_list,             \* section -> sequence of pages (section->page_list)
    free_cnt,              \* section -> section->free_cnt
    reclaimable,           \* pages with SGX_EPC_PAGE_RECLAIMABLE in desc
    owner,                 \* page -> epc_page->owner (an enclave page id)
    sgx_active_page_list,  \* sequence of pages
    \* the enclave (struct sgx_encl)
    encl,                  \* "none" | "live" | "released"
    flags,                 \* encl->flags
    refcount,              \* encl->refcount
    page_tree,             \* indices present in encl->page_tree
    encl_pages,            \* enclave page id -> [epc, reclaimed]
    secs_child_cnt,
    suspended,             \* sgx_encl_pm_notifier has run for a suspend or hibernation
    add_failed,            \* the worker has taken its failure path for a request
    add_page_reqs,         \* sequence of addresses (req->encl_page)
    work_pending,          \* encl->work is queued on sgx_encl_wq
    lock,                  \* holder of encl->lock: "free" or a thread
    mm_list,               \* sequence of mms, head first (encl->mm_list)
    mm_refcount,           \* mm -> sgx_encl_mm refcount
    \* the host's address spaces
    vmas,                  \* mm -> set of enclave VMAs, each a set of addresses
    pte,                   \* mm -> address -> installed page or NIL
    \* sgx_add_page_worker
    wpc, w_req, w_empty, w_skip, w_page,
    \* sgx_ioc_enclave_init
    ipc, i_flags,
    i_ret,                 \* sgx_encl_init: ret
    einit,                 \* sgx_encl_init: the retry loop and the EINIT it drives
    secs_attributes,       \* encl->secs_attributes, from the SECS given to create
    allowed_attributes,    \* encl->allowed_attributes
    \* sgx_vma_open
    opc, o_mm, o_src, o_flags,
    \* sgx_reclaim_pages
    rpc, chunk, ri,
    \* history
    enq_log,               \* addresses in the order __sgx_encl_add_page queued them
    deq_log,               \* addresses in the order the worker dequeued them
    eadd_log,              \* addresses in the order EADD was issued
    init_log,              \* number of times INITIALIZED was set
    zapped,                \* pages whose page table entries the reclaimer zapped
    blocked,               \* pages EBLOCK was issued on since their allocation
    ewbd,                  \* pages EWB was issued on since their allocation
    evicted,               \* pages the reclaimer wrote back or removed since allocation
    uaf,                   \* a released enclave's memory has been read
    unselected,            \* pages the second loop of the running or last batch put back
    ewb,                   \* sgx_encl_ewb: the escalation and the EWB it drives
    \* the lock protocol, step by step
    npc,                   \* sgx_encl_pm_notifier: "idle" | "flush"
    f_at,                  \* sgx_vma_fault: <<mm, address>> of a fault in progress, or NILs
    r_sem,                 \* the reclaimer's walk: the mm whose mmap_sem it holds, or NIL
    r_walk,                \* the reclaimer's walk: whether it is on, and the mms still to visit
    \* SGX_IOC_ENCLAVE_CREATE, call by call
    cpc,                   \* calling thread -> "idle" | "find" | "install" | "put"
    c_encl,                \* calling thread -> the enclave sgx_encl_alloc gave it, or NIL
    encls,                 \* enclave -> [state, refcount, secs, ret]
    vm_private_data,       \* vma->vm_private_data of the enclave mapping: an enclave or NIL
    installed              \* the enclaves stored into vm_private_data, in order

pool_vars == <<free_list, free_cnt, reclaimable, owner, sgx_active_page_list>>
encl_vars == <<encl, flags, refcount, page_tree, encl_pages, secs_child_cnt,
               suspended, add_failed, mm_list, mm_refcount>>
hw_vars == <<zapped, blocked, ewbd, evicted>>
vm_vars == <<vmas, pte>>
worker_vars == <<wpc, w_req, w_empty, w_skip, w_page>>
init_vars == <<ipc, i_flags, i_ret, einit, secs_attributes, allowed_attributes>>
open_vars == <<opc, o_mm, o_src, o_flags>>
reclaim_vars == <<rpc, chunk, ri, unselected, ewb>>
log_vars == <<enq_log, deq_log, eadd_log, init_log, uaf>>
lock_vars == <<npc, f_at, r_sem, r_walk>>
create_vars == <<cpc, c_encl, encls, vm_private_data, installed>>
fine_vars == <<lock_vars, create_vars>>
vars == <<pool_vars, encl_vars, hw_vars, vm_vars, worker_vars, init_vars,
          open_vars, reclaim_vars, log_vars, fine_vars, add_page_reqs,
          work_pending, lock>>

(* ------------------------------ helpers -------------------------------- *)
SeqToSet(q) == {q[i] : i \in 1..Len(q)}
SeqRemove(q, x) == SelectSeq(q, LAMBDA y : y # x)
SetMin(S) == CHOOSE x \in S : \A y \in S : x <= y

\* The kernel objects an operation works on, as one record.
Cur == [free_list |-> free_list, free_cnt |-> free_cnt, reclaimable |-> reclaimable,
        owner |-> owner, active |-> sgx_active_page_list,
        encl |-> encl, flags |-> flags, refcount |-> refcount,
        page_tree |-> page_tree, encl_pages |-> encl_pages,
        secs_child_cnt |-> secs_child_cnt, suspended |-> suspended,
        add_failed |-> add_failed,
        mm_list |-> mm_list, mm_refcount |-> mm_refcount,
        zapped |-> zapped, blocked |-> blocked, ewbd |-> ewbd,
        evicted |-> evicted]

Commit(s) ==
    /\ free_list' = s.free_list
    /\ free_cnt' = s.free_cnt
    /\ reclaimable' = s.reclaimable
    /\ owner' = s.owner
    /\ sgx_active_page_list' = s.active
    /\ encl' = s.encl
    /\ flags' = s.flags
    /\ refcount' = s.refcount
    /\ page_tree' = s.page_tree
    /\ encl_pages' = s.encl_pages
    /\ secs_child_cnt' = s.secs_child_cnt
    /\ suspended' = s.suspended
    /\ add_failed' = s.add_failed
    /\ mm_list' = s.mm_list
    /\ mm_refcount' = s.mm_refcount
    /\ zapped' = s.zapped
    /\ blocked' = s.blocked
    /\ ewbd' = s.ewbd
    /\ evicted' = s.evicted

(* ---------------------------- the EPC pool ----------------------------- *)
sgx_epc_section(p) == (p - 1) % NumSections

\* Return a page to its section: tail of the free list, counter incremented;
\* a free page has no owner.
sgx_section_put_page(s, p) ==
    [s EXCEPT !.free_list[sgx_epc_section(p)] = Append(@, p),
              !.free_cnt[sgx_epc_section(p)] = @ + 1,
              !.owner[p] = NoOwner]

\* try_free: a reclaimable page that is off the active list is in the hands of
\* the reclaimer and the free is deferred (-EBUSY); otherwise the page is
\* detached from the active list, removed (EREMOVE) and returned to its section.
__sgx_free_page(s, p) ==
    IF p \in s.reclaimable /\ p \notin SeqToSet(s.active)
    THEN [ret |-> "EBUSY", st |-> s]
    ELSE [ret |-> "OK",
          st |-> sgx_section_put_page(
                     [s EXCEPT !.active = SeqRemove(@, p),
                               !.reclaimable = @ \ {p}], p)]

\* Unconditional free: EREMOVE, off every list, back to the section.
sgx_free_page(s, p) ==
    sgx_section_put_page([s EXCEPT !.active = SeqRemove(@, p),
                                   !.reclaimable = @ \ {p}], p)

sgx_calc_free_cnt(s) ==
    LET RECURSIVE Sum(_)
        Sum(i) == IF i = NumSections THEN 0 ELSE s.free_cnt[i] + Sum(i + 1)
    IN Sum(0)

\* The first section, in index order, with a non-empty free list.
FirstSection(s) ==
    LET ne == {i \in Sections : s.free_list[i] # <<>>}
    IN IF ne = {} THEN -1 ELSE SetMin(ne)

\* allocate(owner): detach the head page of the first non-empty section, bind
\* its owner, clear its flags, decrement the counter.  page = NIL: all empty.
sgx_alloc_page(s, own) ==
    LET i == FirstSection(s)
    IN IF i = -1 THEN [page |-> NIL, st |-> s]
       ELSE LET p == Head(s.free_list[i])
            IN [page |-> p,
                st |-> [s EXCEPT !.free_list[i] = Tail(@),
                                 !.free_cnt[i] = @ - 1,
                                 !.owner[p] = own,
                                 !.reclaimable = @ \ {p},
                                 !.zapped = @ \ {p},
                                 !.blocked = @ \ {p},
                                 !.ewbd = @ \ {p},
                                 !.evicted = @ \ {p}]]

(* ----------------------- enclave teardown ------------------------------ *)
\* Mutant of sgx_encl_destroy_entry: the page is unbound and the child count
\* decremented whatever __sgx_free_page returns.
sgx_encl_destroy_entry_unbinds_busy(s, a) ==
    LET e == s.encl_pages[a]
    IN IF e.epc = NIL THEN s
       ELSE [__sgx_free_page(s, e.epc).st EXCEPT !.secs_child_cnt = @ - 1,
                                                 !.encl_pages[a].epc = NIL,
                                                 !.page_tree = @ \ {a}]

\* Mutant of sgx_encl_destroy_entry: sgx_free_page in place of __sgx_free_page,
\* so that a page in the hands of the reclaimer is freed at once.
sgx_encl_destroy_entry_frees_busy(s, a) ==
    LET e == s.encl_pages[a]
    IN IF e.epc = NIL THEN s
       ELSE [sgx_free_page(s, e.epc) EXCEPT !.secs_child_cnt = @ - 1,
                                            !.encl_pages[a].epc = NIL,
                                            !.page_tree = @ \ {a}]

\* One slot of the radix tree walk of sgx_encl_destroy.
sgx_encl_destroy_entry(s, a) ==
    LET e == s.encl_pages[a]
    IN IF e.epc = NIL THEN s
       ELSE LET r == __sgx_free_page(s, e.epc)
                s1 == IF r.ret = "OK"
                      THEN [r.st EXCEPT !.secs_child_cnt = @ - 1,
                                        !.encl_pages[a].epc = NIL]
                      ELSE r.st
            IN [s1 EXCEPT !.page_tree = @ \ {a}]

RECURSIVE DestroyWalk(_, _)
DestroyWalk(s, todo) ==
    IF todo = {} THEN s
    ELSE LET a == SetMin(todo)
         IN DestroyWalk(sgx_encl_destroy_entry(s, a), todo \ {a})

\* Mutant of sgx_encl_destroy: the SECS page is not freed.
sgx_encl_destroy_keeps_secs(s) ==
    LET s0 == [s EXCEPT !.flags = @ \cup {SGX_ENCL_DEAD}]
    IN DestroyWalk(s0, s0.page_tree)

sgx_encl_destroy(s) ==
    LET s0 == [s EXCEPT !.flags = @ \cup {SGX_ENCL_DEAD}]
        s1 == DestroyWalk(s0, s0.page_tree)
    IN IF s1.secs_child_cnt = 0 /\ s1.encl_pages[SECS].epc # NIL
       THEN [sgx_free_page(s1, s1.encl_pages[SECS].epc)
                 EXCEPT !.encl_pages[SECS].epc = NIL]
       ELSE s1

\* kref release callback: the notifier is unregistered, the resources are
\* destroyed, the mm list and the enclave are freed.
sgx_encl_release(s) ==
    [sgx_encl_destroy(s) EXCEPT !.encl = "released",
                                !.mm_list = <<>>,
                                !.mm_refcount = [m \in MMs |-> 0]]

kref_get(s) == [s EXCEPT !.refcount = @ + 1]

kref_put(s) ==
    LET t == [s EXCEPT !.refcount = @ - 1]
    IN IF t.refcount = 0 THEN sgx_encl_release(t) ELSE t

(* ------------------------------- Init ---------------------------------- *)
\* The driver is loaded, every page is on the free list of its section, and
\* the creating process has mapped the enclave range with one VMA.
\* The attribute bits sgx_encl_alloc allows without a provision file, and the
\* bits a SECS may ask for beyond them.
SGX_ATTR_ALLOWED_MASK == {"DEBUG", "MODE64BIT"}
SGX_ATTR_PROVISIONKEY == "PROVISIONKEY"
ExtraAttributes == {SGX_ATTR_PROVISIONKEY, "EINITTOKENKEY"}

InitBase ==
    /\ allowed_attributes = SGX_ATTR_ALLOWED_MASK
    /\ free_list = [i \in Sections |->
                      SelectSeq([k \in 1..NumPages |-> k],
                                LAMBDA p : sgx_epc_section(p) = i)]
    /\ free_cnt = [i \in Sections |->
                      Cardinality({p \in Pages : sgx_epc_section(p) = i})]
    /\ reclaimable = {}
    /\ owner = [p \in Pages |-> NoOwner]
    /\ sgx_active_page_list = <<>>
    /\ encl = "none"
    /\ flags = {}
    /\ refcount = 0
    /\ page_tree = {}
    /\ encl_pages = [a \in EnclPageIds |-> [epc |-> NIL, reclaimed |-> FALSE]]
    /\ secs_child_cnt = 0
    /\ suspended = FALSE
    /\ add_failed = FALSE
    /\ add_page_reqs = <<>>
    /\ work_pending = FALSE
    /\ lock = "free"
    /\ mm_list = <<>>
    /\ mm_refcount = [m \in MMs |-> 0]
    /\ vmas = [m \in MMs |-> IF m = 1 THEN {Addrs} ELSE {}]
    /\ pte = [m \in MMs |-> [a \in Addrs |-> NIL]]
    /\ wpc = "idle" /\ w_req = NIL /\ w_empty = FALSE /\ w_skip = FALSE /\ w_page = NIL
    /\ ipc = "idle" /\ i_flags = {} /\ i_ret = "none"
    /\ opc = "idle" /\ o_mm = NIL /\ o_src = NIL /\ o_flags = {}
    /\ rpc = "idle" /\ chunk = <<>> /\ ri = 0 /\ unselected = {}
    /\ npc = "idle" /\ f_at = <<NIL, NIL>> /\ r_sem = NIL
    /\ r_walk = [on |-> FALSE, mms |-> <<>>]
    /\ cpc = [c \in Creators |-> "idle"] /\ c_encl = [c \in Creators |-> NIL]
    /\ encls = [e \in EnclIds |-> NoEncl]
    /\ vm_private_data = NIL /\ installed = <<>>
    /\ enq_log = <<>> /\ deq_log = <<>> /\ eadd_log = <<>> /\ init_log = 0
    /\ zapped = {} /\ blocked = {} /\ ewbd = {} /\ evicted = {}
    /\ uaf = FALSE

\* What EWB and ETRACK will do during the write-back of a page: the first k
\* calls of EWB for the page return SGX_NOT_TRACKED and the later ones fin,
\* an SGX error code or a fault of the ENCLS instruction; ETRACK returns trk.
EwbScripts ==
    [k : 0..3, fin : {"0", "SGX_INVALID_EPC_PAGE", "ENCLS_FAULT"},
     trk : {"0", "SGX_PREV_TRK_INCMPL"}]

\* The locals of sgx_encl_ewb before its first call, with the instructions
\* issued for the page (ops), the number of version-array slots handed out
\* (slots) and the pages whose write-back gave up on an error (lost).
EwbStart(sc) ==
    [k |-> sc.k, fin |-> sc.fin, trk |-> sc.trk,
     pc |-> "idle", page |-> NIL, do_free |-> FALSE, va_offset |-> 0,
     ret |-> "0", ops |-> <<>>, slots |-> 0, lost |-> {}]

\* The results of EINIT: success, the transient SGX_UNMASKED_EVENT, another
\* SGX error code, and a fault of the ENCLS instruction.
EinitFinal == {"0", "SGX_INVALID_SIGNATURE", "ENCLS_FAULT"}

\* What EINIT and the caller's signals will do during one SGX_IOC_ENCLAVE_INIT:
\* the first k calls of EINIT return SGX_UNMASKED_EVENT and the later ones
\* fin; sig tells whether a signal is pending for the caller.
EinitScripts ==
    [k : 0..(SGX_EINIT_SPIN_COUNT * SGX_EINIT_SLEEP_COUNT), fin : EinitFinal,
     sig : BOOLEAN]

\* The locals of sgx_encl_init at the entry of the loop, with the number of
\* EINIT calls and of sleeps made so far.
EinitStart(sc) ==
    [k |-> sc.k, fin |-> sc.fin, sig |-> sc.sig,
     pc |-> "spin", i |-> 0, j |-> 0, ret |-> "0", calls |-> 0, sleeps |-> 0]

\* The scripts of the full model: EINIT gives its result at the first call,
\* or stays transient until the sleep, which a signal ends.
MainScripts ==
    {sc \in EinitScripts :
        \/ sc.k = 0 /\ ~sc.sig
        \/ sc.k = SGX_EINIT_SPIN_COUNT /\ sc.sig /\ sc.fin = "0"}

Init ==
    /\ InitBase
    /\ einit = EinitStart([k |-> 0, fin |-> "0", sig |-> FALSE])
    /\ ewb = EwbStart([k |-> 0, fin |-> "0", trk |-> "0"])
    /\ secs_attributes = {"MODE64BIT"}

\* One SGX_IOC_ENCLAVE_INIT at a time against every behaviour of EINIT.
InitEinit ==
    /\ InitBase
    /\ ewb = EwbStart([k |-> 0, fin |-> "0", trk |-> "0"])
    /\ einit \in {EinitStart(sc) : sc \in EinitScripts}
    /\ secs_attributes \in {{"MODE64BIT"} \cup x : x \in SUBSET ExtraAttributes}


(* --------------------------- host address spaces ----------------------- *)
\* mmap_sem of these address spaces is held for writing by a fork or a VMA
\* split that is inside its vm_ops->open callback.
sem_held == IF opc = "idle" THEN {} ELSE {o_mm, o_src}

\* The address spaces in which some enclave VMA covers address a.
Mapping(a) == {m \in MMs : \E v \in vmas[m] : a \in v}

\* An ioctl caller: sgx_encl_get finds the enclave through a VMA of current->mm.
CanCall(a) == \E m \in Mapping(a) : m \notin sem_held

(* ----------------------- SGX_IOC_ENCLAVE_CREATE ------------------------ *)
\* sgx_encl_alloc, sgx_encl_create and the error path of the ioctl.  ok is the
\* outcome of ECREATE, register_pm_notifier and the VMA checks.
sgx_ioc_enclave_create ==
    /\ encl = "none"
    /\ \E ok \in BOOLEAN :
        LET s0 == [Cur EXCEPT !.encl = "live", !.refcount = 1,
                              !.mm_list = <<1>>, !.mm_refcount[1] = 1]
            r == sgx_alloc_page(s0, SECS)
        IN IF r.page = NIL
           THEN Commit(kref_put(s0))
           ELSE LET s1 == [r.st EXCEPT !.encl_pages[SECS].epc = r.page]
                IN IF ok THEN Commit(s1) ELSE Commit(kref_put(s1))
    /\ UNCHANGED <<fine_vars, vm_vars, worker_vars, init_vars, open_vars, reclaim_vars,
                   log_vars, add_page_reqs, work_pending, lock>>

(* ------------------------------ sgx_encl_get --------------------------- *)
\* The enclave is found through a VMA of current->mm (CanCall): a suspended
\* enclave gives the power-loss code, otherwise the caller gets a reference.
\* [ret, st].
sgx_encl_get(s) ==
    IF SGX_ENCL_SUSPEND \in s.flags
    THEN [ret |-> "SGX_POWER_LOST_ENCLAVE", st |-> s]
    ELSE [ret |-> "0", st |-> kref_get(s)]

(* ---------------------- SGX_IOC_ENCLAVE_ADD_PAGE ----------------------- *)
\* Mutant of sgx_encl_page_alloc: the enclave page is inserted without the
\* lookup of its index.
sgx_encl_page_alloc_no_lookup(s, a) ==
    [ret |-> "OK",
     st |-> [s EXCEPT !.page_tree = @ \cup {a},
                      !.encl_pages[a] = [epc |-> NIL, reclaimed |-> FALSE]]]

\* The enclave page is allocated and inserted into the page tree.
sgx_encl_page_alloc(s, a) ==
    IF a \in s.page_tree
    THEN [ret |-> "EEXIST", st |-> s]
    ELSE [ret |-> "OK",
          st |-> [s EXCEPT !.page_tree = @ \cup {a},
                           !.encl_pages[a] = [epc |-> NIL, reclaimed |-> FALSE]]]

\* Mutant of __sgx_encl_add_page: the request takes no reference.
__sgx_encl_add_page_no_ref(s, q, a) ==
    [st |-> s, reqs |-> Append(q, a), kick |-> (q = <<>>)]

\* Mutant of __sgx_encl_add_page: list_add in place of list_add_tail.
__sgx_encl_add_page_at_head(s, q, a) ==
    [st |-> kref_get(s), reqs |-> <<a>> \o q, kick |-> (q = <<>>)]

\* The request takes a reference and goes to the tail of the queue; the work
\* is queued when the queue was empty.
__sgx_encl_add_page(s, q, a) ==
    [st |-> kref_get(s), reqs |-> Append(q, a), kick |-> (q = <<>>)]

\* Mutant of sgx_encl_add_page: only SGX_ENCL_INITIALIZED is tested.
sgx_encl_add_page_ignores_dead(s, q, a) ==
    IF SGX_ENCL_INITIALIZED \in s.flags
    THEN [ret |-> "-EINVAL", st |-> s, reqs |-> q, kick |-> FALSE]
    ELSE LET r == __sgx_encl_add_page(sgx_encl_page_alloc(s, a).st, q, a)
         IN [ret |-> "0", st |-> r.st, reqs |-> r.reqs, kick |-> r.kick]

\* sgx_encl_add_page for valid SECINFO and TCS data, under encl->lock:
\* [ret, st, reqs, kick].
sgx_encl_add_page(s, q, a) ==
    IF s.flags \cap {SGX_ENCL_INITIALIZED, SGX_ENCL_DEAD} # {}
    THEN [ret |-> "-EINVAL", st |-> s, reqs |-> q, kick |-> FALSE]
    ELSE LET pa == sgx_encl_page_alloc(s, a)
         IN IF pa.ret # "OK"
            THEN [ret |-> "-EEXIST", st |-> s, reqs |-> q, kick |-> FALSE]
            ELSE LET r == __sgx_encl_add_page(pa.st, q, a)
                 IN [ret |-> "0", st |-> r.st, reqs |-> r.reqs, kick |-> r.kick]

\* The ioctl as a function of the enclave and the queue: sgx_encl_get,
\* sgx_encl_add_page and the kref_put that ends it.  [ret, st, reqs, kick].
sgx_ioc_enclave_add_page_call(s, q, a) ==
    LET g == sgx_encl_get(s)
    IN IF g.ret # "0"
       THEN [ret |-> g.ret, st |-> s, reqs |-> q, kick |-> FALSE]
       ELSE LET r == sgx_encl_add_page(g.st, q, a)
            IN [r EXCEPT !.st = kref_put(r.st)]

\* sgx_ioc_enclave_add_page: one critical section of encl->lock between the
\* ioctl's kref_get and kref_put.  A call that fails changes nothing.
sgx_ioc_enclave_add_page(a) ==
    /\ encl = "live"
    /\ CanCall(a)
    /\ lock = "free"
    /\ LET r == sgx_ioc_enclave_add_page_call(Cur, add_page_reqs, a)
       IN /\ Commit(r.st)
          /\ add_page_reqs' = r.reqs
          /\ work_pending' = (work_pending \/ r.kick)
          /\ enq_log' = IF r.ret = "0" THEN Append(enq_log, a) ELSE enq_log
    /\ UNCHANGED <<fine_vars, vm_vars, worker_vars, init_vars, open_vars, reclaim_vars,
                   deq_log, eadd_log, init_log, uaf, lock>>

\* Mutant of sgx_add_page_worker_dequeue: encl->lock is not released after
\* the request is taken off the queue, so the worker allocates with it held.
sgx_add_page_worker_dequeue_keeps_lock ==
    /\ encl = "live"
    /\ \/ wpc = "idle" /\ work_pending
       \/ wpc = "loop"
    /\ lock = "free"
    /\ add_page_reqs # <<>>
    /\ LET skip == (wpc = "loop" /\ w_skip) \/ SGX_ENCL_DEAD \in flags
       IN /\ w_skip' = skip
          /\ wpc' = IF skip THEN "put" ELSE "alloc"
    /\ w_req' = Head(add_page_reqs)
    /\ add_page_reqs' = Tail(add_page_reqs)
    /\ w_empty' = (Tail(add_page_reqs) = <<>>)
    /\ work_pending' = IF wpc = "idle" THEN FALSE ELSE work_pending
    /\ deq_log' = Append(deq_log, Head(add_page_reqs))
    /\ lock' = "worker"
    /\ UNCHANGED <<fine_vars, pool_vars, encl_vars, hw_vars, vm_vars, init_vars, open_vars,
                   reclaim_vars, enq_log, eadd_log, init_log, uaf, w_page>>

(* ------------------------- sgx_add_page_worker ------------------------- *)
\* The head of the loop: the request at the head of the queue is taken off
\* under encl->lock.
sgx_add_page_worker_dequeue ==
    /\ encl = "live"
    /\ \/ wpc = "idle" /\ work_pending
       \/ wpc = "loop"
    /\ lock = "free"
    /\ add_page_reqs # <<>>
    /\ LET skip == (wpc = "loop" /\ w_skip) \/ SGX_ENCL_DEAD \in flags
       IN /\ w_skip' = skip
          /\ wpc' = IF skip THEN "put" ELSE "alloc"
    /\ w_req' = Head(add_page_reqs)
    /\ add_page_reqs' = Tail(add_page_reqs)
    /\ w_empty' = (Tail(add_page_reqs) = <<>>)
    /\ work_pending' = IF wpc = "idle" THEN FALSE ELSE work_pending
    /\ deq_log' = Append(deq_log, Head(add_page_reqs))
    /\ UNCHANGED <<fine_vars, pool_vars, encl_vars, hw_vars, vm_vars, init_vars, open_vars,
                   reclaim_vars, enq_log, eadd_log, init_log, uaf, lock, w_page>>

\* epc_page = sgx_alloc_page() when some section has a free page.  While every
\* free list is empty the allocation waits for the reclaimer and tries again.
sgx_add_page_worker_alloc ==
    /\ wpc = "alloc"
    /\ LET r == sgx_alloc_page(Cur, w_req)
       IN /\ r.page # NIL
          /\ Commit(r.st)
          /\ w_page' = r.page
    /\ wpc' = "lock"
    /\ UNCHANGED <<fine_vars, vm_vars, init_vars, open_vars, reclaim_vars, log_vars,
                   add_page_reqs, work_pending, lock, w_req, w_empty, w_skip>>

\* epc_page = sgx_alloc_page() returns an error: the pool is empty and the
\* allocation does not wait, or its wait is interrupted.
sgx_add_page_worker_alloc_err ==
    /\ wpc = "alloc"
    /\ sgx_alloc_page(Cur, w_req).page = NIL
    /\ w_page' = ErrPage
    /\ wpc' = "lock"
    /\ UNCHANGED <<fine_vars, pool_vars, encl_vars, hw_vars, vm_vars, init_vars, open_vars,
                   reclaim_vars, log_vars, add_page_reqs, work_pending, lock,
                   w_req, w_empty, w_skip>>

\* Mutant of sgx_add_page_worker_fail: the page is freed and the enclave is
\* not destroyed.
sgx_add_page_worker_fail_no_destroy(s, p) ==
    [(IF p = ErrPage THEN s ELSE sgx_free_page(s, p)) EXCEPT !.add_failed = TRUE]

\* The failure path of the worker under encl->lock: sgx_alloc_page gave an
\* error, or sgx_process_add_page_req returned false and the page is freed;
\* the enclave is destroyed (and skip_rest is set).
sgx_add_page_worker_fail(s, p) ==
    [sgx_encl_destroy(IF p = ErrPage THEN s ELSE sgx_free_page(s, p))
         EXCEPT !.add_failed = TRUE]

\* mutex_lock, the IS_ERR test and the flags test that opens
\* sgx_process_add_page_req.  A failed request destroys the enclave.
sgx_add_page_worker_lock ==
    /\ wpc = "lock"
    /\ lock = "free"
    /\ IF w_page = ErrPage \/ flags \cap {SGX_ENCL_SUSPEND, SGX_ENCL_DEAD} # {}
       THEN /\ Commit(sgx_add_page_worker_fail(Cur, w_page))
            /\ w_skip' = TRUE /\ wpc' = "put" /\ w_page' = NIL
            /\ UNCHANGED lock
       ELSE /\ lock' = "worker" /\ wpc' = "eadd"
            /\ UNCHANGED <<pool_vars, encl_vars, hw_vars, w_skip, w_page>>
    /\ UNCHANGED <<fine_vars, vm_vars, init_vars, open_vars, reclaim_vars, log_vars,
                   add_page_reqs, work_pending, w_req, w_empty>>

\* The tail of sgx_process_add_page_req on success: the page is bound.
sgx_process_add_page_req_bind(s, a, p) ==
    [s EXCEPT !.encl_pages[a].epc = p, !.secs_child_cnt = @ + 1]

\* The rest of sgx_process_add_page_req under encl->lock, by its result: the
\* page is bound after EADD and EEXTEND; the backing page cannot be had (no
\* EADD is issued); EADD or EEXTEND fails.  A failure takes the failure path of
\* the worker.  mutex_unlock.  A NULL encl->secs.epc_page is
\* dereferenced by sgx_epc_addr: the worker stops in an oops, holding the lock.
sgx_add_page_worker_eadd ==
    /\ wpc = "eadd"
    /\ IF encl_pages[SECS].epc = NIL
       THEN /\ wpc' = "oops"
            /\ UNCHANGED <<pool_vars, encl_vars, hw_vars, lock, w_skip, w_page,
                           eadd_log>>
       ELSE /\ \E res \in {"ok", "backing", "eadd"} :
                 IF res = "ok"
                 THEN /\ Commit(sgx_process_add_page_req_bind(Cur, w_req, w_page))
                      /\ eadd_log' = Append(eadd_log, w_req)
                      /\ UNCHANGED w_skip
                 ELSE /\ Commit(sgx_add_page_worker_fail(Cur, w_page))
                      /\ eadd_log' = IF res = "eadd" THEN Append(eadd_log, w_req)
                                     ELSE eadd_log
                      /\ w_skip' = TRUE
            /\ lock' = "free" /\ wpc' = "put" /\ w_page' = NIL
    /\ UNCHANGED <<fine_vars, vm_vars, init_vars, open_vars, reclaim_vars, enq_log, deq_log,
                   init_log, uaf, add_page_reqs, work_pending, w_req, w_empty>>

\* kfree(req) and the loop condition: the request's reference is dropped; the
\* worker goes on unless that was the last reference or the queue was empty.
sgx_add_page_worker_put ==
    /\ wpc = "put"
    /\ LET s == kref_put(Cur)
       IN /\ Commit(s)
          /\ wpc' = IF s.encl = "released" \/ w_empty THEN "idle" ELSE "loop"
    /\ w_req' = NIL
    /\ w_skip' = IF wpc' = "idle" THEN FALSE ELSE w_skip
    /\ UNCHANGED <<fine_vars, vm_vars, init_vars, open_vars, reclaim_vars, log_vars,
                   add_page_reqs, work_pending, lock, w_empty, w_page>>

(* ---------------------- sgx_mark_page_reclaimable ---------------------- *)
\* Exported; its callers are outside these sources.  It is applied to a page
\* that is bound to a user page of the enclave and not yet marked.
sgx_mark_page_reclaimable(p) ==
    /\ encl = "live"
    /\ p \notin reclaimable
    /\ \E a \in Addrs : encl_pages[a].epc = p /\ owner[p] = a
    /\ reclaimable' = reclaimable \cup {p}
    /\ sgx_active_page_list' = Append(sgx_active_page_list, p)
    /\ UNCHANGED <<fine_vars, free_list, free_cnt, owner, encl_vars, hw_vars, vm_vars,
                   worker_vars, init_vars, open_vars, reclaim_vars, log_vars,
                   add_page_reqs, work_pending, lock>>

(* ------------------------ SGX_IOC_ENCLAVE_INIT ------------------------- *)
\* Mutant of sgx_encl_init_authorized: the attributes are not checked.
sgx_encl_init_unchecked(sa, aa) == TRUE

\* The first test of sgx_encl_init: no bit of encl->secs_attributes lies
\* outside encl->allowed_attributes.
sgx_encl_init_authorized(sa, aa) == sa \ aa = {}

\* sgx_encl_get: the ioctl takes a reference unless the enclave is suspended;
\* then the attribute test of sgx_encl_init, which returns -EINVAL at once.
sgx_ioc_enclave_init_get ==
    /\ encl = "live"
    /\ ipc = "idle"
    /\ \E a \in Addrs : CanCall(a)
    /\ sgx_encl_get(Cur).ret = "0"
    /\ Commit(sgx_encl_get(Cur).st)
    /\ IF sgx_encl_init_authorized(secs_attributes, allowed_attributes)
       THEN ipc' = "flush" /\ i_ret' = "0"
       ELSE ipc' = "put" /\ i_ret' = "-EINVAL"
    /\ UNCHANGED <<fine_vars, vm_vars, worker_vars, open_vars, reclaim_vars, log_vars,
                   add_page_reqs, work_pending, lock, i_flags, einit,
                   secs_attributes, allowed_attributes>>

\* sgx_ioc_enclave_set_attribute with the provision file: sgx_encl_get, the
\* update of encl->allowed_attributes, kref_put.
sgx_ioc_enclave_set_attribute ==
    /\ encl = "live"
    /\ \E a \in Addrs : CanCall(a)
    /\ sgx_encl_get(Cur).ret = "0"
    /\ allowed_attributes' = allowed_attributes \cup {SGX_ATTR_PROVISIONKEY}
    /\ UNCHANGED <<fine_vars, pool_vars, encl_vars, hw_vars, vm_vars, worker_vars, open_vars,
                   reclaim_vars, log_vars, add_page_reqs, work_pending, lock,
                   ipc, i_flags, i_ret, einit, secs_attributes>>

\* flush_work(&encl->work) returns once the work is neither queued nor running.
sgx_encl_init_flush ==
    /\ ipc = "flush"
    /\ wpc = "idle" /\ ~work_pending
    /\ ipc' = "lock"
    /\ UNCHANGED <<fine_vars, pool_vars, encl_vars, hw_vars, vm_vars, worker_vars, open_vars,
                   reclaim_vars, log_vars, add_page_reqs, work_pending, lock,
                   i_flags, i_ret, einit, secs_attributes, allowed_attributes>>

\* mutex_lock and the two tests of encl->flags: an initialized enclave leaves
\* with ret as it is (0), a dead one with -EFAULT; otherwise the loop starts.
sgx_encl_init_lock ==
    /\ ipc = "lock"
    /\ lock = "free"
    /\ IF flags \cap {SGX_ENCL_INITIALIZED, SGX_ENCL_DEAD} # {}
       THEN /\ ipc' = "put"
            /\ i_ret' = IF SGX_ENCL_INITIALIZED \in flags THEN i_ret ELSE "-EFAULT"
            /\ UNCHANGED lock
       ELSE ipc' = "einit" /\ lock' = "init" /\ UNCHANGED i_ret
    /\ einit' = EinitStart(einit)
    /\ UNCHANGED <<fine_vars, pool_vars, encl_vars, hw_vars, vm_vars, worker_vars, open_vars,
                   reclaim_vars, log_vars, add_page_reqs, work_pending, i_flags,
                   secs_attributes, allowed_attributes>>

\* sgx_einit: the result of the next call of EINIT.
sgx_einit(e) == IF e.calls < e.k THEN "SGX_UNMASKED_EVENT" ELSE e.fin

\* Mutant of sgx_encl_init_spin: every transient result is followed by a sleep.
sgx_encl_init_spin_sleeps_each_time(e) ==
    LET r == sgx_einit(e)
        e1 == [e EXCEPT !.calls = @ + 1, !.ret = r]
    IN IF r = "SGX_UNMASKED_EVENT" THEN [e1 EXCEPT !.pc = "sleep"]
       ELSE [e1 EXCEPT !.pc = "result"]

\* One pass of the inner loop: the call of sgx_einit, continue on
\* SGX_UNMASKED_EVENT while j < SGX_EINIT_SPIN_COUNT, break otherwise; after
\* the inner loop the outer one breaks unless ret is SGX_UNMASKED_EVENT.
sgx_encl_init_spin(e) ==
    LET r == sgx_einit(e)
        e1 == [e EXCEPT !.calls = @ + 1, !.ret = r]
    IN IF r = "SGX_UNMASKED_EVENT"
       THEN IF e.j + 1 < SGX_EINIT_SPIN_COUNT
            THEN [e1 EXCEPT !.j = @ + 1]
            ELSE [e1 EXCEPT !.pc = "sleep"]
       ELSE [e1 EXCEPT !.pc = "result"]

\* Mutant of sgx_encl_init_sleep: signal_pending is not tested.
sgx_encl_init_sleep_ignores_signal(e) ==
    LET e1 == [e EXCEPT !.sleeps = @ + 1]
    IN IF e.i + 1 < SGX_EINIT_SLEEP_COUNT
       THEN [e1 EXCEPT !.i = @ + 1, !.j = 0, !.pc = "spin"]
       ELSE [e1 EXCEPT !.pc = "result"]

\* msleep_interruptible, the test of signal_pending, and the step of the
\* outer loop.
sgx_encl_init_sleep(e) ==
    LET e1 == [e EXCEPT !.sleeps = @ + 1]
    IN IF e.sig
       THEN [e1 EXCEPT !.ret = "-ERESTARTSYS", !.pc = "err_out"]
       ELSE IF e.i + 1 < SGX_EINIT_SLEEP_COUNT
            THEN [e1 EXCEPT !.i = @ + 1, !.j = 0, !.pc = "spin"]
            ELSE [e1 EXCEPT !.pc = "result"]

\* The loop from a position to its exit.
RECURSIVE sgx_encl_init_loop(_)
sgx_encl_init_loop(e) ==
    IF e.pc = "spin" THEN sgx_encl_init_loop(sgx_encl_init_spin(e))
    ELSE IF e.pc = "sleep" THEN sgx_encl_init_loop(sgx_encl_init_sleep(e))
    ELSE e

\* Where sgx_encl_init is once the loop is at e: still in the loop, at the
\* tests of ret after it, or at err_out (mutex_unlock) after a signal.
sgx_encl_init_at(e) ==
    /\ i_ret' = e.ret
    /\ IF e.pc = "err_out" THEN ipc' = "put" /\ lock' = "free"
       ELSE IF e.pc = "result" THEN ipc' = "result" /\ UNCHANGED lock
       ELSE UNCHANGED <<ipc, lock>>

\* The retry loop in one step, for each behaviour of EINIT in MainScripts.
sgx_encl_init_einit ==
    /\ ipc = "einit"
    /\ \E sc \in MainScripts : sgx_encl_init_at(sgx_encl_init_loop(EinitStart(sc)))
    /\ UNCHANGED <<fine_vars, pool_vars, encl_vars, hw_vars, vm_vars, worker_vars, open_vars,
                   reclaim_vars, log_vars, add_page_reqs, work_pending, i_flags,
                   einit, secs_attributes, allowed_attributes>>

\* The retry loop, one call of EINIT at a time.
sgx_encl_init_einit_spin ==
    /\ ipc = "einit"
    /\ einit.pc = "spin"
    /\ einit' = sgx_encl_init_spin(einit)
    /\ sgx_encl_init_at(einit')
    /\ UNCHANGED <<fine_vars, pool_vars, encl_vars, hw_vars, vm_vars, worker_vars, open_vars,
                   reclaim_vars, log_vars, add_page_reqs, work_pending, i_flags,
                   secs_attributes, allowed_attributes>>

\* The retry loop: the sleep between two rounds of spinning.
sgx_encl_init_einit_sleep ==
    /\ ipc = "einit"
    /\ einit.pc = "sleep"
    /\ einit' = sgx_encl_init_sleep(einit)
    /\ sgx_encl_init_at(einit')
    /\ UNCHANGED <<fine_vars, pool_vars, encl_vars, hw_vars, vm_vars, worker_vars, open_vars,
                   reclaim_vars, log_vars, add_page_reqs, work_pending, i_flags,
                   secs_attributes, allowed_attributes>>

encls_faulted(ret) == ret = "ENCLS_FAULT"

encls_returned_code(ret) == ~encls_faulted(ret) /\ ret # "0"

\* Mutant of sgx_encl_init_done: a fault is handled like an error code.
sgx_encl_init_done_keeps_faulted(s, ret) ==
    IF encls_faulted(ret) \/ encls_returned_code(ret)
    THEN [st |-> s, ret |-> ret, pc |-> "put"]
    ELSE [st |-> s, ret |-> ret, pc |-> "set"]

\* The tests of ret after the loop: a fault destroys the enclave and gives
\* -EFAULT, an error code is returned as it is, success goes on to set
\* SGX_ENCL_INITIALIZED.  [st, ret, pc].
sgx_encl_init_done(s, ret) ==
    IF encls_faulted(ret)
    THEN [st |-> sgx_encl_destroy(s), ret |-> "-EFAULT", pc |-> "put"]
    ELSE IF encls_returned_code(ret)
    THEN [st |-> s, ret |-> ret, pc |-> "put"]
    ELSE [st |-> s, ret |-> ret, pc |-> "set"]

\* The step after the loop.  On success encl->flags is read for the update
\* that sets INITIALIZED; otherwise the mutex is released.
sgx_encl_init_result ==
    /\ ipc = "result"
    /\ LET r == sgx_encl_init_done(Cur, i_ret)
       IN /\ Commit(r.st)
          /\ i_ret' = r.ret
          /\ ipc' = r.pc
          /\ IF r.pc = "set" THEN i_flags' = flags /\ UNCHANGED lock
             ELSE lock' = "free" /\ UNCHANGED i_flags
    /\ UNCHANGED <<fine_vars, vm_vars, worker_vars, open_vars, reclaim_vars, log_vars,
                   add_page_reqs, work_pending, einit, secs_attributes,
                   allowed_attributes>>

\* encl->flags |= SGX_ENCL_INITIALIZED: the write of the update; mutex_unlock.
sgx_encl_init_set ==
    /\ ipc = "set"
    /\ flags' = i_flags \cup {SGX_ENCL_INITIALIZED}
    /\ init_log' = init_log + 1
    /\ ipc' = "put" /\ lock' = "free"
    /\ i_flags' = {}
    /\ UNCHANGED <<fine_vars, pool_vars, encl, refcount, page_tree, encl_pages, secs_child_cnt,
                   suspended, add_failed, mm_list, mm_refcount, hw_vars, vm_vars, worker_vars, open_vars,
                   reclaim_vars, enq_log, deq_log, eadd_log, uaf, add_page_reqs,
                   work_pending, i_ret, einit, secs_attributes, allowed_attributes>>

\* The ioctl drops its reference.
sgx_ioc_enclave_init_put ==
    /\ ipc = "put"
    /\ Commit(kref_put(Cur))
    /\ ipc' = "idle"
    /\ i_ret' = "none"
    /\ UNCHANGED <<fine_vars, vm_vars, worker_vars, open_vars, reclaim_vars, log_vars,
                   add_page_reqs, work_pending, lock, i_flags, einit,
                   secs_attributes, allowed_attributes>>

(* ------------------------- sgx_encl_pm_notifier ------------------------ *)
\* PM_SUSPEND_PREPARE or PM_HIBERNATION_PREPARE: the enclave is destroyed and
\* marked suspended under encl->lock.
sgx_encl_pm_notifier ==
    /\ encl = "live"
    /\ lock = "free"
    /\ LET s == sgx_encl_destroy(Cur)
       IN Commit([s EXCEPT !.flags = @ \cup {SGX_ENCL_SUSPEND},
                           !.suspended = TRUE])
    /\ UNCHANGED <<fine_vars, vm_vars, worker_vars, init_vars, open_vars, reclaim_vars,
                   log_vars, add_page_reqs, work_pending, lock>>

(* ------------------------------ VMA callbacks -------------------------- *)
IsInterval(v) ==
    /\ v # {}
    /\ \A x \in v, y \in v, z \in Addrs : (x < z /\ z < y) => z \in v

\* The VMAs of address space m once a VMA v has been opened in it: a copy of
\* v made by fork from address space src, or the part v split off a VMA of m.
VmasAfterOpen(m, src, v) ==
    IF m = src
    THEN LET w == CHOOSE w \in vmas[m] : v \subseteq w
         IN (vmas[m] \ {w}) \cup {v, w \ v}
    ELSE vmas[m] \cup {v}

CanOpen(m, src, v) ==
    /\ IsInterval(v)
    /\ IF m = src
       THEN \E w \in vmas[m] : v \subseteq w /\ v # w /\ IsInterval(w \ v)
       ELSE v \in vmas[src] /\ \A w \in vmas[m] : w \cap v = {}

\* sgx_encl_get_mm: the entry of the mm list for address space m, if any.
sgx_encl_get_mm(s, m) == m \in SeqToSet(s.mm_list)

\* sgx_vma_open, up to the read of encl->flags for the update that sets DEAD.
\* kzalloc is the outcome of the allocation of the mm list entry.
sgx_vma_open(m, src, v) ==
    /\ encl = "live"
    /\ opc = "idle"
    /\ CanOpen(m, src, v)
    /\ vmas' = [vmas EXCEPT ![m] = VmasAfterOpen(m, src, v)]
    /\ IF SGX_ENCL_DEAD \in flags
       THEN /\ Commit(kref_get(Cur))
            /\ UNCHANGED open_vars
       ELSE IF sgx_encl_get_mm(Cur, m)
       THEN /\ Commit(kref_get([Cur EXCEPT !.mm_refcount[m] = @ + 1]))
            /\ UNCHANGED open_vars
       ELSE \E kzalloc \in BOOLEAN :
              IF kzalloc
              THEN /\ Commit(kref_get([Cur EXCEPT !.mm_list = <<m>> \o @,
                                                  !.mm_refcount[m] = 1]))
                   /\ UNCHANGED open_vars
              ELSE /\ opc' = "write" /\ o_mm' = m /\ o_src' = src
                   /\ o_flags' = flags
                   /\ UNCHANGED <<pool_vars, encl_vars, hw_vars>>
    /\ UNCHANGED <<fine_vars, pte, worker_vars, init_vars, reclaim_vars, log_vars,
                   add_page_reqs, work_pending, lock>>

\* encl->flags |= SGX_ENCL_DEAD without encl->lock: the write of the update,
\* and the kref_get that ends sgx_vma_open.
sgx_vma_open_dead ==
    /\ opc = "write"
    /\ Commit(kref_get([Cur EXCEPT !.flags = o_flags \cup {SGX_ENCL_DEAD}]))
    /\ opc' = "idle" /\ o_mm' = NIL /\ o_src' = NIL /\ o_flags' = {}
    /\ UNCHANGED <<fine_vars, vm_vars, worker_vars, init_vars, reclaim_vars, log_vars,
                   add_page_reqs, work_pending, lock>>

\* sgx_vma_close for a VMA that is unmapped: its page table entries go, the
\* mm list entry loses the VMA's reference and the enclave loses one.
sgx_vma_close(m, v) ==
    /\ encl = "live"
    /\ v \in vmas[m]
    /\ m \notin sem_held
    /\ vmas' = [vmas EXCEPT ![m] = @ \ {v}]
    /\ pte' = [pte EXCEPT ![m] = [a \in Addrs |-> IF a \in v THEN NIL ELSE @[a]]]
    /\ LET s1 == IF sgx_encl_get_mm(Cur, m)
                 THEN IF mm_refcount[m] = 1
                      THEN [Cur EXCEPT !.mm_refcount[m] = 0,
                                       !.mm_list = SeqRemove(@, m)]
                      ELSE [Cur EXCEPT !.mm_refcount[m] = @ - 1]
                 ELSE Cur
       IN Commit(kref_put(s1))
    /\ UNCHANGED <<fine_vars, worker_vars, init_vars, open_vars, reclaim_vars, log_vars,
                   add_page_reqs, work_pending, lock>>

\* Mutant of sgx_encl_load_page: SGX_ENCL_INITIALIZED is not tested.
sgx_encl_load_page_any_stage(s, a) ==
    IF s.encl # "live" \/ SGX_ENCL_DEAD \in s.flags THEN "EFAULT"
    ELSE IF a \in s.page_tree /\ s.encl_pages[a].epc # NIL THEN "OK"
    ELSE "EFAULT"

\* sgx_encl_load_page: the resident enclave page at address a, or an error.
sgx_encl_load_page(s, a) ==
    IF s.encl # "live" THEN "EFAULT"
    ELSE IF SGX_ENCL_DEAD \in s.flags \/ SGX_ENCL_INITIALIZED \notin s.flags
    THEN "EFAULT"
    ELSE IF a \notin s.page_tree THEN "EFAULT"
    ELSE IF s.encl_pages[a].epc # NIL THEN "OK"
    ELSE "EFAULT"

\* The fault handler as a function of the enclave, under encl->lock: its
\* result and the frame it hands to vmf_insert_pfn.  [ret, frame].
sgx_vma_fault_call(s, m, a) ==
    IF ~sgx_encl_get_mm(s, m)
    THEN [ret |-> "VM_FAULT_SIGBUS", frame |-> NIL]
    ELSE IF sgx_encl_load_page(s, a) # "OK"
    THEN [ret |-> "VM_FAULT_SIGBUS", frame |-> NIL]
    ELSE [ret |-> "VM_FAULT_NOPAGE", frame |-> s.encl_pages[a].epc]

\* sgx_vma_fault at address a of address space m, when it installs a page
\* table entry.  A fault that ends in SIGBUS changes nothing.
sgx_vma_fault(m, a) ==
    /\ encl = "live"
    /\ m \in Mapping(a)
    /\ m \notin sem_held
    /\ lock = "free"
    /\ sgx_vma_fault_call(Cur, m, a).ret = "VM_FAULT_NOPAGE"
    /\ pte[m][a] = NIL
    /\ pte' = [pte EXCEPT ![m][a] = sgx_vma_fault_call(Cur, m, a).frame]
    /\ UNCHANGED <<fine_vars, pool_vars, encl_vars, hw_vars, vmas, worker_vars, init_vars,
                   open_vars, reclaim_vars, log_vars, add_page_reqs, work_pending,
                   lock>>

(* ------------------------------ the reclaimer -------------------------- *)
\* Mutant of sgx_should_reclaim: the watermark is not looked at.
sgx_should_reclaim_any_list ==
    sgx_active_page_list # <<>>

sgx_should_reclaim ==
    sgx_calc_free_cnt(Cur) < SGX_NR_HIGH_PAGES /\ sgx_active_page_list # <<>>

\* kref_get_unless_zero on the enclave that owns the page.  A released
\* enclave's memory is read as it was left: its count is zero.
sgx_reclaimer_get(s) == s.encl = "live" /\ s.refcount > 0

\* Mutant of Harvest: a page is kept for the batch without a reference on
\* its enclave.
RECURSIVE Harvest_without_ref(_, _, _)
Harvest_without_ref(s, taken, got) ==
    IF taken = <<>> THEN [st |-> s, chunk |-> got]
    ELSE Harvest_without_ref(s, Tail(taken), Append(got, Head(taken)))

\* The scan loop of sgx_reclaim_pages over the pages taken from the head of
\* the active list: [st, chunk].
RECURSIVE Harvest(_, _, _)
Harvest(s, taken, got) ==
    IF taken = <<>> THEN [st |-> s, chunk |-> got]
    ELSE LET p == Head(taken)
         IN IF sgx_reclaimer_get(s)
            THEN Harvest(kref_get(s), Tail(taken), Append(got, p))
            ELSE Harvest([s EXCEPT !.reclaimable = @ \ {p}], Tail(taken), got)

\* The first index after i whose chunk slot still holds a page, or 0.
NextSlot(c, i) ==
    LET js == {j \in (i + 1)..Len(c) : c[j] # NIL}
    IN IF js = {} THEN 0 ELSE SetMin(js)

\* ksgxswapd finds sgx_should_reclaim() true and sgx_reclaim_pages takes up to
\* SGX_NR_TO_SCAN pages off the active list under its spinlock.
sgx_reclaim_pages_scan ==
    /\ rpc = "idle"
    /\ sgx_should_reclaim
    /\ LET n == IF Len(sgx_active_page_list) < SGX_NR_TO_SCAN
                THEN Len(sgx_active_page_list) ELSE SGX_NR_TO_SCAN
           h == Harvest([Cur EXCEPT !.active = SubSeq(@, n + 1, Len(@))],
                        SubSeq(sgx_active_page_list, 1, n), <<>>)
       IN /\ Commit(h.st)
          /\ chunk' = h.chunk
          /\ unselected' = {}
          /\ ewb' = ewb
          /\ uaf' = (uaf \/ encl # "live")
          /\ IF h.chunk = <<>>
             THEN rpc' = "idle" /\ ri' = 0
             ELSE rpc' = "evict" /\ ri' = 1
    /\ UNCHANGED <<fine_vars, vm_vars, worker_vars, init_vars, open_vars, enq_log, deq_log,
                   eadd_log, init_log, add_page_reqs, work_pending, lock>>

\* The locks a walk over the mm list takes: mmap_sem of each address space on
\* the list, and encl->lock.
CanWalk ==
    \/ mm_list = <<>>
    \/ lock = "free" /\ SeqToSet(mm_list) \cap sem_held = {}

\* sgx_encl_test_and_clear_young in the address spaces of the walk: the
\* accessed bit of a page table entry is set by the hardware on any access, so
\* an installed entry may be found young or not; yg is the set of address
\* spaces in which it is found young.
YoungChoices(a) == SUBSET {m \in SeqToSet(mm_list) : pte[m][a] # NIL}

\* sgx_reclaimer_evict for the enclave page a: [ret, st].  The mm list is
\* walked from its head; a dead enclave's page is reclaimed at once, a page
\* found young in an address space is kept.
RECURSIVE EvictWalk(_, _, _, _)
EvictWalk(s, yg, a, mms) ==
    IF mms = <<>>
    THEN [ret |-> TRUE, st |-> [s EXCEPT !.encl_pages[a].reclaimed = TRUE]]
    ELSE IF SGX_ENCL_DEAD \in s.flags
    THEN [ret |-> TRUE, st |-> [s EXCEPT !.encl_pages[a].reclaimed = TRUE]]
    ELSE IF Head(mms) \in yg
    THEN [ret |-> FALSE, st |-> s]
    ELSE EvictWalk(s, yg, a, Tail(mms))

sgx_reclaimer_evict(s, yg, a) == EvictWalk(s, yg, a, s.mm_list)

\* The reclaimer drops the reference it took on the enclave that owns a page.
sgx_reclaimer_put(s) == kref_put(s)

\* Mutant of sgx_reclaim_pages_unselect: the reclaimer keeps its reference on
\* the enclave of a page it puts back.
sgx_reclaim_pages_unselect_keeps_ref(s, p) ==
    [s EXCEPT !.active = Append(@, p)]

\* The second loop of sgx_reclaim_pages, for the page in slot ri: a page that
\* is not evicted loses the reclaimer's reference and goes back to the tail of
\* the active list.
sgx_reclaim_pages_unselect(s, p) ==
    [sgx_reclaimer_put(s) EXCEPT !.active = Append(@, p)]

sgx_reclaim_pages_evict ==
    /\ rpc = "evict"
    /\ CanWalk
    /\ \E yg \in YoungChoices(owner[chunk[ri]]) :
        LET p == chunk[ri]
            e == sgx_reclaimer_evict(Cur, yg, owner[p])
            c == IF e.ret THEN chunk ELSE [chunk EXCEPT ![ri] = NIL]
        IN /\ Commit(IF e.ret THEN e.st ELSE sgx_reclaim_pages_unselect(e.st, p))
           /\ unselected' = IF e.ret THEN unselected ELSE unselected \cup {p}
           /\ ewb' = ewb
           /\ IF ri < Len(chunk)
              THEN rpc' = "evict" /\ ri' = ri + 1 /\ chunk' = c
              ELSE IF NextSlot(c, 0) = 0
              THEN rpc' = "idle" /\ ri' = 0 /\ chunk' = <<>>
              ELSE rpc' = "zap" /\ ri' = NextSlot(c, 0) /\ chunk' = c
    /\ UNCHANGED <<fine_vars, vmas, pte, worker_vars, init_vars, open_vars, log_vars,
                   add_page_reqs, work_pending, lock>>

\* sgx_reclaimer_block, first part: the page table entries of the page are
\* zapped in every address space on the mm list that maps it.
sgx_reclaimer_block_zap ==
    /\ rpc = "zap"
    /\ CanWalk
    /\ LET a == owner[chunk[ri]]
           ms == {m \in SeqToSet(mm_list) : m \in Mapping(a)}
       IN /\ pte' = [m \in MMs |-> IF m \in ms THEN [pte[m] EXCEPT ![a] = NIL]
                                   ELSE pte[m]]
    /\ zapped' = zapped \cup {chunk[ri]}
    /\ rpc' = "eblock"
    /\ UNCHANGED <<fine_vars, pool_vars, encl_vars, blocked, ewbd, evicted, vmas, worker_vars,
                   init_vars, open_vars, chunk, ri, unselected, ewb, log_vars,
                   add_page_reqs, work_pending, lock>>

\* Mutant of sgx_reclaimer_block: the test of SGX_ENCL_DEAD is inverted.
sgx_reclaimer_block_inverted(s, p) ==
    IF SGX_ENCL_DEAD \in s.flags
    THEN [s EXCEPT !.blocked = @ \cup {p}]
    ELSE s

\* sgx_reclaimer_block, second part: EBLOCK under encl->lock unless the
\* enclave is dead.
sgx_reclaimer_block(s, p) ==
    IF SGX_ENCL_DEAD \notin s.flags
    THEN [s EXCEPT !.blocked = @ \cup {p}]
    ELSE s

sgx_reclaimer_block_eblock ==
    /\ rpc = "eblock"
    /\ lock = "free"
    /\ Commit(sgx_reclaimer_block(Cur, chunk[ri]))
    /\ IF NextSlot(chunk, ri) = 0
       THEN rpc' = "write" /\ ri' = NextSlot(chunk, 0)
       ELSE rpc' = "zap" /\ ri' = NextSlot(chunk, ri)
    /\ UNCHANGED <<fine_vars, vm_vars, worker_vars, init_vars, open_vars, chunk, unselected, ewb,
                   log_vars, add_page_reqs, work_pending, lock>>

\* sgx_encl_ewb: the page is written back (EWB), or removed when the enclave
\* is dead, and unbound from its enclave page.
sgx_encl_ewb(s, p, do_free) ==
    LET a == s.owner[p]
        s1 == [s EXCEPT !.encl_pages[a].reclaimed = FALSE]
        s2 == IF SGX_ENCL_DEAD \notin s1.flags
              THEN [s1 EXCEPT !.ewbd = @ \cup {p}]
              ELSE s1
        s3 == IF do_free THEN sgx_free_page(s2, p) ELSE s2
    IN [s3 EXCEPT !.encl_pages[a].epc = NIL]

\* sgx_reclaimer_write without its locking: the page, then the SECS when the
\* last child page has gone.
sgx_reclaimer_write(s, p) ==
    LET s1 == [sgx_encl_ewb(s, p, FALSE) EXCEPT !.secs_child_cnt = @ - 1,
                                                !.evicted = @ \cup {p}]
    IN IF s1.secs_child_cnt = 0
          /\ s1.flags \cap {SGX_ENCL_DEAD, SGX_ENCL_INITIALIZED} # {}
       THEN sgx_encl_ewb(s1, s1.encl_pages[SECS].epc, TRUE)
       ELSE s1

\* A NULL encl->secs.epc_page would be dereferenced by sgx_encl_ewb.
WriteDerefsNull(s, p) ==
    LET s1 == [sgx_encl_ewb(s, p, FALSE) EXCEPT !.secs_child_cnt = @ - 1]
    IN /\ s1.secs_child_cnt = 0
       /\ s1.flags \cap {SGX_ENCL_DEAD, SGX_ENCL_INITIALIZED} # {}
       /\ s1.encl_pages[SECS].epc = NIL

sgx_reclaim_pages_write ==
    /\ rpc = "write"
    /\ lock = "free"
    /\ IF WriteDerefsNull(Cur, chunk[ri])
       THEN /\ rpc' = "oops" /\ lock' = "reclaimer"
            /\ UNCHANGED <<pool_vars, encl_vars, hw_vars>>
       ELSE /\ Commit(sgx_reclaimer_write(Cur, chunk[ri]))
            /\ rpc' = "put"
            /\ UNCHANGED lock
    /\ UNCHANGED <<fine_vars, vm_vars, worker_vars, init_vars, open_vars, chunk, ri,
                   unselected, ewb, log_vars, add_page_reqs, work_pending>>

\* Mutant of sgx_reclaim_pages_free: RECLAIMABLE is left set on the page that
\* goes back to its section.
sgx_reclaim_pages_free_keeps_flag(s, p) ==
    sgx_section_put_page(s, p)

\* Mutant of sgx_reclaim_pages_free: the page is linked into the free list of
\* its section by hand, without sgx_section_put_page, so that the counter of
\* the section is not incremented.
sgx_reclaim_pages_free_no_count(s, p) ==
    [s EXCEPT !.reclaimable = @ \ {p},
              !.owner[p] = NoOwner,
              !.free_list[sgx_epc_section(p)] = Append(@, p)]

\* The last loop of sgx_reclaim_pages after the write-back of the page: the
\* reclaimer's reference is dropped, which releases the enclave when it was
\* the last one.
sgx_reclaim_pages_put ==
    /\ rpc = "put"
    /\ Commit(sgx_reclaimer_put(Cur))
    /\ rpc' = "free"
    /\ UNCHANGED <<fine_vars, vm_vars, worker_vars, init_vars, open_vars, chunk, ri,
                   unselected, ewb, log_vars, add_page_reqs, work_pending, lock>>

\* The end of the last loop of sgx_reclaim_pages for the page: RECLAIMABLE is
\* cleared and the page goes back to its section.  The slot of the page is
\* not read again.
sgx_reclaim_pages_free(s, p) ==
    sgx_section_put_page([s EXCEPT !.reclaimable = @ \ {p}], p)

sgx_reclaim_pages_section_put ==
    /\ rpc = "free"
    /\ Commit(sgx_reclaim_pages_free(Cur, chunk[ri]))
    /\ IF NextSlot(chunk, ri) = 0
       THEN rpc' = "idle" /\ ri' = 0 /\ chunk' = <<>>
       ELSE /\ rpc' = "write" /\ ri' = NextSlot(chunk, ri)
            /\ chunk' = [chunk EXCEPT ![ri] = NIL]
    /\ UNCHANGED <<fine_vars, vm_vars, worker_vars, init_vars, open_vars, unselected, ewb, log_vars,
                   add_page_reqs, work_pending, lock>>

(* ------------------- sgx_encl_ewb, one instruction at a time ----------- *)
\* __sgx_encl_ewb: EWB of the page into the slot, as the script has it.
__sgx_encl_ewb(e) ==
    LET n == Cardinality({i \in 1..Len(e.ops) : e.ops[i].op = "EWB"})
    IN IF n < e.k THEN "SGX_NOT_TRACKED" ELSE e.fin

\* An instruction, or the IPI, is issued for the page and gives ret.
Issue(e, op, ret) ==
    [e EXCEPT !.ops = Append(@, [op |-> op, va_offset |-> e.va_offset,
                                 ret |-> ret])]

\* sgx_encl_ewb up to its first instruction: a slot of the first version-array
\* page is taken for a live enclave; a dead enclave's page is removed, unless
\* the caller frees it.
sgx_encl_ewb_begin(e, p, do_free, dead) ==
    LET e0 == [e EXCEPT !.page = p, !.do_free = do_free, !.ops = <<>>, !.ret = "0"]
    IN IF ~dead
       THEN [e0 EXCEPT !.pc = "ewb1", !.va_offset = e.slots,
                       !.slots = (@ + 1) % NumVaSlots]
       ELSE IF ~do_free
       THEN [Issue([e0 EXCEPT !.va_offset = -1], "EREMOVE", "0") EXCEPT !.pc = "done"]
       ELSE [e0 EXCEPT !.va_offset = -1, !.pc = "done"]

\* The test that ends the escalation: a result other than success is logged.
sgx_encl_ewb_warn(e) ==
    [e EXCEPT !.pc = "done",
              !.lost = IF encls_faulted(e.ret) \/ encls_returned_code(e.ret)
                       THEN @ \cup {e.page} ELSE @]

\* Mutant of sgx_encl_ewb_next: the IPI is sent before ETRACK.
sgx_encl_ewb_next_ipi_first(e) ==
    LET w == [Issue(e, "EWB", __sgx_encl_ewb(e)) EXCEPT !.ret = __sgx_encl_ewb(e)]
    IN CASE e.pc = "ewb1" ->
              IF w.ret = "SGX_NOT_TRACKED" THEN [w EXCEPT !.pc = "ipi"]
              ELSE sgx_encl_ewb_warn(w)
         [] e.pc = "ipi" -> [Issue(e, "IPI", "0") EXCEPT !.pc = "ewb2"]
         [] e.pc = "ewb2" ->
              IF w.ret = "SGX_NOT_TRACKED" THEN [w EXCEPT !.pc = "etrack"]
              ELSE sgx_encl_ewb_warn(w)
         [] e.pc = "etrack" ->
              [Issue(e, "ETRACK", e.trk) EXCEPT !.ret = e.trk, !.pc = "ewb3"]
         [] e.pc = "ewb3" -> sgx_encl_ewb_warn(w)

\* The next instruction of the escalation in sgx_encl_ewb: EWB; on
\* SGX_NOT_TRACKED, ETRACK on the SECS and EWB again; on SGX_NOT_TRACKED
\* again, the IPI to the CPUs of the enclave and a last EWB.
sgx_encl_ewb_next(e) ==
    LET w == [Issue(e, "EWB", __sgx_encl_ewb(e)) EXCEPT !.ret = __sgx_encl_ewb(e)]
    IN CASE e.pc = "ewb1" ->
              IF w.ret = "SGX_NOT_TRACKED" THEN [w EXCEPT !.pc = "etrack"]
              ELSE sgx_encl_ewb_warn(w)
         [] e.pc = "etrack" ->
              [Issue(e, "ETRACK", e.trk) EXCEPT !.ret = e.trk, !.pc = "ewb2"]
         [] e.pc = "ewb2" ->
              IF w.ret = "SGX_NOT_TRACKED" THEN [w EXCEPT !.pc = "ipi"]
              ELSE sgx_encl_ewb_warn(w)
         [] e.pc = "ipi" -> [Issue(e, "IPI", "0") EXCEPT !.pc = "ewb3"]
         [] e.pc = "ewb3" -> sgx_encl_ewb_warn(w)

\* sgx_reclaimer_write takes encl->lock and enters sgx_encl_ewb for the page.
sgx_reclaimer_write_lock ==
    /\ rpc = "write"
    /\ lock = "free"
    /\ lock' = "reclaimer"
    /\ rpc' = "ewb"
    /\ ewb' = sgx_encl_ewb_begin(ewb, chunk[ri], FALSE, SGX_ENCL_DEAD \in flags)
    /\ UNCHANGED <<fine_vars, pool_vars, encl_vars, hw_vars, vm_vars, worker_vars, init_vars,
                   open_vars, chunk, ri, unselected, log_vars, add_page_reqs,
                   work_pending>>

sgx_encl_ewb_insn ==
    /\ rpc = "ewb"
    /\ ewb.pc \notin {"idle", "done"}
    /\ ewb' = sgx_encl_ewb_next(ewb)
    /\ UNCHANGED <<fine_vars, pool_vars, encl_vars, hw_vars, vm_vars, worker_vars, init_vars,
                   open_vars, rpc, chunk, ri, unselected, log_vars, add_page_reqs,
                   work_pending, lock>>

\* The end of sgx_encl_ewb whatever EWB returned: the slot is recorded, the
\* page is freed on do_free, and the enclave page is unbound.  After the user
\* page sgx_reclaimer_write goes on to the SECS when no child is left, and
\* unlocks.
sgx_encl_ewb_end ==
    /\ rpc = "ewb"
    /\ ewb.pc = "done"
    /\ LET s0 == sgx_encl_ewb(Cur, ewb.page, ewb.do_free)
           s1 == IF ewb.do_free THEN s0
                 ELSE [s0 EXCEPT !.secs_child_cnt = @ - 1,
                                 !.evicted = @ \cup {ewb.page}]
           secs == /\ ~ewb.do_free
                   /\ s1.secs_child_cnt = 0
                   /\ s1.flags \cap {SGX_ENCL_DEAD, SGX_ENCL_INITIALIZED} # {}
       IN /\ Commit(s1)
          /\ IF secs /\ s1.encl_pages[SECS].epc = NIL
             THEN rpc' = "oops" /\ ewb' = [ewb EXCEPT !.pc = "idle"] /\ UNCHANGED lock
             ELSE IF secs
             THEN /\ ewb' = sgx_encl_ewb_begin(ewb, s1.encl_pages[SECS].epc, TRUE,
                                               SGX_ENCL_DEAD \in flags)
                  /\ UNCHANGED <<rpc, lock>>
             ELSE /\ ewb' = [ewb EXCEPT !.pc = "idle"]
                  /\ rpc' = "put"
                  /\ lock' = "free"
    /\ UNCHANGED <<fine_vars, vm_vars, worker_vars, init_vars, open_vars, chunk, ri,
                   unselected, log_vars, add_page_reqs, work_pending>>

(* --------------------------- the specification ------------------------- *)
Next ==
    \/ sgx_ioc_enclave_create
    \/ \E a \in Addrs : sgx_ioc_enclave_add_page(a)
    \/ sgx_add_page_worker_dequeue
    \/ sgx_add_page_worker_alloc
    \/ sgx_add_page_worker_alloc_err
    \/ sgx_add_page_worker_lock
    \/ sgx_add_page_worker_eadd
    \/ sgx_add_page_worker_put
    \/ \E p \in Pages : sgx_mark_page_reclaimable(p)
    \/ sgx_ioc_enclave_init_get
    \/ sgx_encl_init_flush
    \/ sgx_encl_init_lock
    \/ sgx_encl_init_einit
    \/ sgx_encl_init_result
    \/ sgx_encl_init_set
    \/ sgx_ioc_enclave_init_put
    \/ sgx_encl_pm_notifier
    \/ \E m \in MMs : \E src \in MMs \ {m}, v \in SUBSET Addrs :
          sgx_vma_open(m, src, v)
    \/ sgx_vma_open_dead
    \/ \E m \in MMs, v \in SUBSET Addrs : sgx_vma_close(m, v)
    \/ \E m \in MMs, a \in Addrs : sgx_vma_fault(m, a)
    \/ sgx_reclaim_pages_scan
    \/ sgx_reclaim_pages_evict
    \/ sgx_reclaimer_block_zap
    \/ sgx_reclaimer_block_eblock
    \/ sgx_reclaim_pages_write
    \/ sgx_reclaim_pages_put
    \/ sgx_reclaim_pages_section_put

Spec == Init /\ [][Next]_vars

\* SGX_IOC_ENCLAVE_INIT on a created enclave, with the retry loop taken one
\* call of EINIT and one sleep at a time.
NextEinit ==
    \/ sgx_ioc_enclave_create
    \/ sgx_ioc_enclave_set_attribute
    \/ sgx_ioc_enclave_init_get
    \/ sgx_encl_init_flush
    \/ sgx_encl_init_lock
    \/ sgx_encl_init_einit_spin
    \/ sgx_encl_init_einit_sleep
    \/ sgx_encl_init_result
    \/ sgx_encl_init_set
    \/ sgx_ioc_enclave_init_put

SpecEinit == InitEinit /\ [][NextEinit]_vars

\* Reclaim of the pages of one enclave against every behaviour of EWB and
\* ETRACK, with sgx_encl_ewb taken one instruction at a time.
InitEwb ==
    /\ InitBase
    /\ einit = EinitStart([k |-> 0, fin |-> "0", sig |-> FALSE])
    /\ secs_attributes = {"MODE64BIT"}
    /\ ewb \in {EwbStart(sc) : sc \in EwbScripts}

NextEwb ==
    \/ sgx_ioc_enclave_create
    \/ \E a \in Addrs : sgx_ioc_enclave_add_page(a)
    \/ sgx_add_page_worker_dequeue
    \/ sgx_add_page_worker_alloc
    \/ sgx_add_page_worker_lock
    \/ sgx_add_page_worker_eadd
    \/ sgx_add_page_worker_put
    \/ \E p \in Pages : sgx_mark_page_reclaimable(p)
    \/ sgx_ioc_enclave_init_get
    \/ sgx_encl_init_flush
    \/ sgx_encl_init_lock
    \/ sgx_encl_init_einit
    \/ sgx_encl_init_result
    \/ sgx_encl_init_set
    \/ sgx_ioc_enclave_init_put
    \/ sgx_reclaim_pages_scan
    \/ sgx_reclaim_pages_evict
    \/ sgx_reclaimer_block_zap
    \/ sgx_reclaimer_block_eblock
    \/ sgx_reclaimer_write_lock
    \/ sgx_encl_ewb_insn
    \/ sgx_encl_ewb_end
    \/ sgx_reclaim_pages_put
    \/ sgx_reclaim_pages_section_put

SpecEwb == InitEwb /\ [][NextEwb]_vars

\* ksgxswapd on a pool large enough for the watermark and the batch size to
\* matter: an initialized enclave of L user pages, all marked reclaimable in
\* the order they were added, is mapped by one address space, which has the
\* first page installed, and F pages are free.
InitSwapd ==
    \E L \in SwapdEnclPages, F \in SwapdFreePages :
        /\ allowed_attributes = SGX_ATTR_ALLOWED_MASK
        /\ secs_attributes = {"MODE64BIT"}
        /\ einit = EinitStart([k |-> 0, fin |-> "0", sig |-> FALSE])
        /\ ewb = EwbStart([k |-> 0, fin |-> "0", trk |-> "0"])
        /\ free_list = [i \in Sections |->
                          SelectSeq([k \in 1..F |-> L + 1 + k],
                                    LAMBDA p : sgx_epc_section(p) = i)]
        /\ free_cnt = [i \in Sections |->
                          Cardinality({p \in (L + 2)..(L + 1 + F) :
                                          sgx_epc_section(p) = i})]
        /\ reclaimable = 2..(L + 1)
        /\ owner = [p \in 1..(L + 1 + F) |->
                      IF p <= L + 1 THEN p - 1 ELSE NoOwner]
        /\ sgx_active_page_list = [k \in 1..L |-> k + 1]
        /\ encl = "live"
        /\ flags = {SGX_ENCL_INITIALIZED}
        /\ refcount = 2
        /\ page_tree = 1..L
        /\ encl_pages = [a \in 0..L |-> [epc |-> a + 1, reclaimed |-> FALSE]]
        /\ secs_child_cnt = L
        /\ suspended = FALSE
        /\ add_failed = FALSE
        /\ add_page_reqs = <<>>
        /\ work_pending = FALSE
        /\ lock = "free"
        /\ mm_list = <<1>>
        /\ mm_refcount = [m \in MMs |-> IF m = 1 THEN 1 ELSE 0]
        /\ vmas = [m \in MMs |-> IF m = 1 THEN {1..L} ELSE {}]
        /\ pte = [m \in MMs |-> [a \in 1..L |-> IF m = 1 /\ a = 1 THEN 2 ELSE NIL]]
        /\ wpc = "idle" /\ w_req = NIL /\ w_empty = FALSE /\ w_skip = FALSE
        /\ w_page = NIL
        /\ ipc = "idle" /\ i_flags = {} /\ i_ret = "none"
        /\ opc = "idle" /\ o_mm = NIL /\ o_src = NIL /\ o_flags = {}
        /\ rpc = "idle" /\ chunk = <<>> /\ ri = 0 /\ unselected = {}
        /\ npc = "idle" /\ f_at = <<NIL, NIL>> /\ r_sem = NIL
        /\ r_walk = [on |-> FALSE, mms |-> <<>>]
        /\ cpc = [c \in Creators |-> "idle"] /\ c_encl = [c \in Creators |-> NIL]
        /\ encls = [e \in EnclIds |-> NoEncl]
        /\ vm_private_data = NIL /\ installed = <<>>
        /\ enq_log = [k \in 1..L |-> k] /\ deq_log = [k \in 1..L |-> k]
        /\ eadd_log = [k \in 1..L |-> k] /\ init_log = 1
        /\ zapped = {} /\ blocked = {} /\ ewbd = {} /\ evicted = {}
        /\ uaf = FALSE

\* The steps of the add-page worker, which runs on a workqueue thread.
sgx_add_page_worker ==
    \/ sgx_add_page_worker_dequeue
    \/ sgx_add_page_worker_alloc
    \/ sgx_add_page_worker_lock
    \/ sgx_add_page_worker_eadd
    \/ sgx_add_page_worker_put

\* The steps of ksgxswapd, a kernel thread of its own.
ksgxswapd ==
    \/ sgx_reclaim_pages_scan
    \/ sgx_reclaim_pages_evict
    \/ sgx_reclaimer_block_zap
    \/ sgx_reclaimer_block_eblock
    \/ sgx_reclaim_pages_write
    \/ sgx_reclaim_pages_put
    \/ sgx_reclaim_pages_section_put

\* The VMA callbacks of a created enclave: forks, and also the splits of a
\* VMA inside one address space (a partial munmap or mprotect), on an enclave
\* that a power event may have marked dead.
NextVma ==
    \/ sgx_ioc_enclave_create
    \/ sgx_encl_pm_notifier
    \/ \E m \in MMs, src \in MMs, v \in SUBSET Addrs : sgx_vma_open(m, src, v)
    \/ sgx_vma_open_dead
    \/ \E m \in MMs, v \in SUBSET Addrs : sgx_vma_close(m, v)

SpecVma == Init /\ [][NextVma]_vars

\* ksgxswapd alone, on the pools and enclaves of InitSwapd.
SpecSwapd == InitSwapd /\ [][ksgxswapd]_vars

\* An SGX_IOC_ENCLAVE_INIT that has passed sgx_encl_get runs to its return.
sgx_encl_init ==
    \/ sgx_encl_init_flush
    \/ sgx_encl_init_lock
    \/ sgx_encl_init_einit
    \/ sgx_encl_init_result
    \/ sgx_encl_init_set
    \/ sgx_ioc_enclave_init_put

\* Every thread that is inside the driver is scheduled whenever it can run,
\* also when what it waits for (a lock, a free page) is available only now
\* and then: the worker, ksgxswapd, an init ioctl and a sgx_vma_open that has
\* started run on.  The start of an ioctl, of a fork, a fault or a power
\* event, a call of sgx_mark_page_reclaimable and an error return of
\* sgx_alloc_page are not bound to happen.
LiveSpec ==
    /\ Init /\ [][Next]_vars
    /\ SF_vars(sgx_add_page_worker) /\ SF_vars(ksgxswapd)
    /\ SF_vars(sgx_encl_init) /\ SF_vars(sgx_vma_open_dead)

TypeOK ==
    /\ refcount >= 0
    /\ secs_child_cnt >= 0
    /\ \A m \in MMs : mm_refcount[m] >= 0

(* ------------------------------- properties ---------------------------- *)
OnFreeList(p) == \E i \in Sections : p \in SeqToSet(free_list[i])
OnActiveList(p) == p \in SeqToSet(sgx_active_page_list)
HeldByBatch(p) == \E i \in 1..Len(chunk) : chunk[i] = p
Count(b) == IF b THEN 1 ELSE 0
NoDuplicates(q) == \A i \in 1..Len(q), j \in 1..Len(q) : q[i] = q[j] => i = j

\* C1 (as the specification states it): in no address space is there a page
\* table entry for a secure page that the reclaimer has written back or
\* removed and that has not been allocated again since.
C1_NoStaleFrame ==
    \A m \in MMs, a \in Addrs : pte[m][a] = NIL \/ pte[m][a] \notin evicted

\* C2 (as the specification states it): every secure page is in exactly one
\* of three conditions: on a section free list, on the reclaim list, or bound
\* to an owner with RECLAIMABLE cleared.
C2_ThreeConditions ==
    \A p \in Pages :
        Count(OnFreeList(p)) + Count(OnActiveList(p))
          + Count(owner[p] # NoOwner /\ p \notin reclaimable) = 1

\* C2 (amended): every secure page is in exactly one of four conditions: on
\* one section free list with no owner and RECLAIMABLE cleared; on the reclaim
\* list with RECLAIMABLE set; held by the running reclaim batch, off both
\* lists with RECLAIMABLE set; or off both lists, bound to an owner with
\* RECLAIMABLE cleared.  No list holds a page twice.
C2_FourConditions ==
    /\ \A p \in Pages :
        Count(OnFreeList(p) /\ owner[p] = NoOwner /\ p \notin reclaimable)
          + Count(OnActiveList(p) /\ p \in reclaimable)
          + Count(HeldByBatch(p) /\ p \in reclaimable)
          + Count(owner[p] # NoOwner /\ p \notin reclaimable) = 1
    /\ \A p \in Pages : Count(OnFreeList(p)) + Count(OnActiveList(p)) <= 1
    /\ \A p \in Pages : Cardinality({i \in Sections : p \in SeqToSet(free_list[i])}) <= 1
    /\ NoDuplicates(sgx_active_page_list)
    /\ \A i \in Sections : NoDuplicates(free_list[i])

\* C2 witness: a reclaim batch holds a page between its scan and its block
\* phase: the page is off both lists and RECLAIMABLE is set.
C2_Witness ==
    /\ rpc = "zap"
    /\ chunk[ri] \in reclaimable
    /\ ~OnFreeList(chunk[ri]) /\ ~OnActiveList(chunk[ri])

\* C3: for every section, free_cnt equals the number of pages on the
\* section's free list.
C3_FreeCount ==
    \A i \in Sections : free_cnt[i] = Len(free_list[i])

\* C3 witness: after an allocation, a page that the reclaimer wrote back is
\* on its section's free list again while the SECS page is still allocated.
C3_Witness ==
    /\ \E p \in evicted : OnFreeList(p)
    /\ \E p \in Pages : ~OnFreeList(p) /\ owner[p] = SECS

\* C4 (as the specification states it): DEAD is never cleared, and
\* INITIALIZED is set at most once and only in a step that starts with DEAD
\* unset.
C4_FlagsMonotonic ==
    [][/\ (SGX_ENCL_DEAD \in flags => SGX_ENCL_DEAD \in flags')
       /\ (SGX_ENCL_INITIALIZED \notin flags /\ SGX_ENCL_INITIALIZED \in flags'
             => SGX_ENCL_DEAD \notin flags /\ init_log = 0)]_vars

\* C5 (as the specification states it): in a step that starts with DEAD set,
\* no enclave page's secure-page pointer goes from null to non-null.
C5_NoBindAfterDead ==
    [][(SGX_ENCL_DEAD \in flags) =>
         (\A a \in Addrs : encl_pages[a].epc = NIL => encl_pages'[a].epc = NIL)]_vars

\* C6 (as the specification states it): the step that sets INITIALIZED starts
\* with the add-request queue empty and the worker idle, and no EADD is issued
\* in a step that starts with INITIALIZED set.
C6_InitAfterFlush ==
    [][/\ (SGX_ENCL_INITIALIZED \notin flags /\ SGX_ENCL_INITIALIZED \in flags'
             => add_page_reqs = <<>> /\ wpc = "idle")
       /\ (SGX_ENCL_INITIALIZED \in flags => eadd_log' = eadd_log)]_vars

\* C7: whenever the enclave mutex is not held, secs_child_cnt equals the
\* number of enclave pages whose secure-page pointer is non-null.
C7_ChildCount ==
    lock = "free" =>
        secs_child_cnt = Cardinality({a \in Addrs : encl_pages[a].epc # NIL})

\* C7 witness: the mutex is free after sgx_encl_destroy met a page that a
\* reclaim batch holds: the free was deferred, the page is still bound and
\* still counted, its entry is gone from the page tree.
C7_Witness ==
    /\ lock = "free"
    /\ SGX_ENCL_DEAD \in flags
    /\ secs_child_cnt = 1
    /\ \E a \in Addrs : encl_pages[a].epc # NIL /\ a \notin page_tree

\* The add requests that are queued or in the hands of the worker.
Pending == Len(add_page_reqs) + Count(w_req # NIL)

\* C8: while add requests are pending the enclave is not released and its
\* refcount is at least the number of pending requests.
C8_RequestsHoldRefs ==
    Pending > 0 => encl = "live" /\ refcount >= Pending

\* C8 witness: one request is queued and one is with the worker, and these
\* two requests hold the only references to the enclave.
C8_Witness ==
    /\ encl = "live"
    /\ w_req # NIL /\ add_page_reqs # <<>>
    /\ refcount = Pending

IsPrefix(q, r) == Len(q) <= Len(r) /\ SubSeq(r, 1, Len(q)) = q
Pos(q, x) == CHOOSE i \in 1..Len(q) : q[i] = x

\* C9: requests are dequeued in the order in which they were queued, the
\* queue holds the requests not yet dequeued in that order, and the EADDs are
\* issued for dequeued requests in that order.
C9_Fifo ==
    /\ IsPrefix(deq_log, enq_log)
    /\ add_page_reqs = SubSeq(enq_log, Len(deq_log) + 1, Len(enq_log))
    /\ \A i \in 1..Len(eadd_log) : \E j \in 1..Len(deq_log) : deq_log[j] = eadd_log[i]
    /\ \A i \in 1..Len(eadd_log), j \in 1..Len(eadd_log) :
          i < j => Pos(enq_log, eadd_log[i]) < Pos(enq_log, eadd_log[j])

\* C9 witness: two requests were queued while the worker was busy with
\* neither, and EADD has been issued for both.
C9_Witness ==
    /\ Len(enq_log) >= 2
    /\ Len(eadd_log) >= 2
    /\ eadd_log[1] = enq_log[1] /\ eadd_log[2] = enq_log[2]

\* C10 (as the specification states it): every secure page on which EWB was
\* issued, the SECS page included, had EBLOCK issued on it before.
C10_BlockBeforeWriteBack ==
    ewbd \subseteq blocked

\* C10 (amended): every page of a reclaim batch on which EWB was issued had
\* EBLOCK issued on it before.
C10_BlockBeforeWriteBackInBatch ==
    \A p \in ewbd \cap evicted : p \in blocked

\* C10 witness: a page of a reclaim batch has been blocked and written back.
C10_Witness ==
    \E p \in evicted : p \in ewbd /\ p \in blocked

BatchRefs ==
    Cardinality({i \in 1..Len(chunk) : chunk[i] # NIL}) - Count(rpc = "free")

C12_DuplicateRejected ==
    \A a \in Addrs :
        (encl = "live" /\ a \in page_tree) =>
            LET r == sgx_ioc_enclave_add_page_call(Cur, add_page_reqs, a)
            IN /\ r.ret # "0"
               /\ flags = {} => r.ret = "-EEXIST"
               /\ r.st = Cur
               /\ r.reqs = add_page_reqs
               /\ ~r.kick

\* C12 witness: the page at an address is resident and the enclave is still
\* under construction; add_page can be called at that address again and gives
\* -EEXIST.
C12_Witness ==
    \E a \in Addrs :
        /\ encl = "live" /\ flags = {} /\ lock = "free" /\ CanCall(a)
        /\ a \in page_tree /\ encl_pages[a].epc # NIL
        /\ sgx_ioc_enclave_add_page_call(Cur, add_page_reqs, a).ret = "-EEXIST"

\* C13 (as the specification states it): add_page on an initialized enclave
\* fails with -EINVAL, add_page on a dead enclave fails with an error of its
\* own, and neither inserts an enclave page or queues a request.
C13_DistinctDeadError ==
    \A a \in Addrs :
        (encl = "live" /\ SGX_ENCL_SUSPEND \notin flags) =>
            LET r == sgx_ioc_enclave_add_page_call(Cur, add_page_reqs, a)
            IN /\ (SGX_ENCL_INITIALIZED \in flags /\ SGX_ENCL_DEAD \notin flags)
                    => r.ret = "-EINVAL"
               /\ SGX_ENCL_DEAD \in flags => r.ret \notin {"0", "-EINVAL"}
               /\ flags # {} => r.st = Cur /\ r.reqs = add_page_reqs

\* C13 (amended): add_page on an enclave that is initialized or dead fails
\* with -EINVAL in both cases, inserts no enclave page and queues no request.
C13_InitializedOrDeadRejected ==
    \A a \in Addrs :
        (/\ encl = "live"
         /\ SGX_ENCL_SUSPEND \notin flags
         /\ flags \cap {SGX_ENCL_INITIALIZED, SGX_ENCL_DEAD} # {}) =>
            LET r == sgx_ioc_enclave_add_page_call(Cur, add_page_reqs, a)
            IN /\ r.ret = "-EINVAL"
               /\ r.st = Cur
               /\ r.reqs = add_page_reqs
               /\ ~r.kick

\* C13 witness: the enclave is dead and not suspended, its creator can call
\* add_page at an address that has no entry in the page tree, and the call
\* gives -EINVAL.
C13_Witness ==
    \E a \in Addrs :
        /\ encl = "live" /\ flags = {SGX_ENCL_DEAD} /\ lock = "free" /\ CanCall(a)
        /\ a \notin page_tree
        /\ sgx_ioc_enclave_add_page_call(Cur, add_page_reqs, a).ret = "-EINVAL"

\* C17 (as the specification states it): once the power event has been
\* delivered the enclave is dead and suspended, and an ioctl that starts on it
\* gets the power-loss code from sgx_encl_get.
C17_PowerLost ==
    (suspended /\ encl = "live") =>
        /\ {SGX_ENCL_DEAD, SGX_ENCL_SUSPEND} \subseteq flags
        /\ sgx_encl_get(Cur).ret = "SGX_POWER_LOST_ENCLAVE"

\* C20: when an enclave has been released and no add_page succeeded on it,
\* whether its creation succeeded or failed, the total of the sections' free
\* counts is what it was before the creation: the whole pool.
C20_CreateDestroyRestoresFree ==
    (encl = "released" /\ enq_log = <<>>) =>
        /\ sgx_calc_free_cnt(Cur) = NumPages
        /\ \A p \in Pages : OnFreeList(p)

\* C20 witness: the creation succeeded (the enclave was initialized later),
\* no page was added, the last reference is gone and every page is free.
C20_Witness ==
    /\ encl = "released" /\ enq_log = <<>> /\ init_log > 0
    /\ encl_pages[SECS].epc = NIL
    /\ sgx_calc_free_cnt(Cur) = NumPages

\* C14: EINIT is called until its first result other than SGX_UNMASKED_EVENT;
\* a sleep comes only after SGX_EINIT_SPIN_COUNT transient results in a row
\* and the outer loop runs at most SGX_EINIT_SLEEP_COUNT times; when EINIT is
\* transient k < SGX_EINIT_SPIN_COUNT times and then succeeds, sgx_encl_init
\* makes k + 1 calls, does not sleep, returns 0 and sets INITIALIZED.
C14_RetryLoop ==
    /\ einit.calls <= einit.k + 1
    /\ einit.sleeps * SGX_EINIT_SPIN_COUNT <= einit.calls
    /\ einit.sleeps > 0 => einit.sleeps * SGX_EINIT_SPIN_COUNT <= einit.k
    /\ einit.i < SGX_EINIT_SLEEP_COUNT
    /\ einit.sleeps <= SGX_EINIT_SLEEP_COUNT
    /\ einit.calls <= SGX_EINIT_SPIN_COUNT * SGX_EINIT_SLEEP_COUNT
    /\ (einit.pc = "result" /\ einit.ret # "SGX_UNMASKED_EVENT") =>
          einit.calls = einit.k + 1 /\ einit.ret = einit.fin
    /\ (einit.pc = "result" /\ einit.k < SGX_EINIT_SPIN_COUNT /\ einit.fin = "0") =>
          /\ einit.calls = einit.k + 1
          /\ einit.sleeps = 0
          /\ ipc \in {"result", "set", "put"} => i_ret = "0"
          /\ ipc \notin {"result", "set"} => SGX_ENCL_INITIALIZED \in flags

\* C14 witness: EINIT was transient three times and then succeeded; the ioctl
\* is about to return 0 after four calls and no sleep, INITIALIZED is set.
C14_Witness ==
    /\ einit.k = 3 /\ einit.fin = "0" /\ einit.pc = "result"
    /\ einit.calls = 4 /\ einit.sleeps = 0
    /\ ipc = "put" /\ i_ret = "0" /\ SGX_ENCL_INITIALIZED \in flags

\* C15: with a signal pending throughout, sgx_encl_init sleeps at most once;
\* the sleep is followed by the return of -ERESTARTSYS with the mutex
\* released and neither INITIALIZED nor DEAD set, and it is reached whenever
\* EINIT stays transient for SGX_EINIT_SPIN_COUNT calls.
C15_SignalPending ==
    einit.sig =>
        /\ einit.sleeps <= 1
        /\ einit.sleeps = 1 =>
              /\ einit.pc = "err_out" /\ einit.ret = "-ERESTARTSYS"
              /\ einit.calls = SGX_EINIT_SPIN_COUNT
              /\ ipc # "einit" /\ lock = "free"
              /\ ipc = "put" => i_ret = "-ERESTARTSYS"
              /\ flags \cap {SGX_ENCL_INITIALIZED, SGX_ENCL_DEAD} = {}
        /\ (einit.k >= SGX_EINIT_SPIN_COUNT /\ einit.pc \in {"result", "err_out"})
              => einit.sleeps = 1

\* C15 witness: a signal is pending, EINIT was transient SGX_EINIT_SPIN_COUNT
\* times, the one sleep was taken and the ioctl is about to return
\* -ERESTARTSYS with the mutex free and no flag set.
C15_Witness ==
    /\ einit.sig /\ einit.sleeps = 1 /\ einit.calls = SGX_EINIT_SPIN_COUNT
    /\ ipc = "put" /\ i_ret = "-ERESTARTSYS" /\ lock = "free" /\ flags = {}

\* C16: the step of sgx_encl_init after the loop, by the result of EINIT: a
\* fault marks the enclave DEAD, unbinds every page that no reclaim batch
\* holds, does not set INITIALIZED and returns -EFAULT; success leads to the
\* update that sets INITIALIZED and returns 0; any other result leaves the
\* flags alone and is returned as it is.
C16_InitOutcome ==
    [][/\ (ipc = "result" /\ ipc' # "result" /\ i_ret = "ENCLS_FAULT") =>
            /\ SGX_ENCL_DEAD \in flags'
            /\ SGX_ENCL_INITIALIZED \in flags' => SGX_ENCL_INITIALIZED \in flags
            /\ i_ret' = "-EFAULT" /\ ipc' = "put" /\ lock' = "free"
            /\ \A a \in Addrs :
                  encl_pages'[a].epc # NIL => HeldByBatch(encl_pages[a].epc)
       /\ (ipc = "result" /\ ipc' # "result" /\ i_ret = "0") =>
            ipc' = "set" /\ i_ret' = "0" /\ flags' = flags /\ lock' = lock
       /\ (ipc = "set" /\ ipc' # "set") =>
            /\ SGX_ENCL_INITIALIZED \in flags'
            /\ i_ret' = "0" /\ ipc' = "put" /\ lock' = "free"
       /\ (ipc = "result" /\ ipc' # "result"
                          /\ i_ret \notin {"0", "ENCLS_FAULT"}) =>
            /\ flags' = flags
            /\ i_ret' = i_ret /\ ipc' = "put" /\ lock' = "free"
            /\ encl_pages' = encl_pages
      ]_vars

\* C16 witness: EINIT faulted on an enclave with added pages: the ioctl is
\* about to return -EFAULT, the enclave is DEAD and not INITIALIZED and no
\* page is bound.  Neither a suspend nor a failed add request destroyed it.
C16_Witness ==
    /\ ipc = "put" /\ i_ret = "-EFAULT" /\ lock = "free"
    /\ encl = "live" /\ flags = {SGX_ENCL_DEAD} /\ ~suspended
    /\ eadd_log # <<>> /\ deq_log = eadd_log /\ init_log = 0
    /\ \A a \in EnclPageIds : encl_pages[a].epc = NIL

\* Every free list is empty and every page of the pool is bound to an
\* enclave page.
PoolExhausted ==
    /\ \A i \in Sections : free_list[i] = <<>>
    /\ \A p \in Pages : \E a \in EnclPageIds : encl_pages[a].epc = p

\* C18 (as the specification states it): when the pool is exhausted by the
\* pages of an initialized enclave, an allocation that waits for the reclaimer
\* obtains a page in the end.
C18_AllocEventuallySucceeds ==
    (/\ wpc = "alloc" /\ encl = "live" /\ PoolExhausted
     /\ flags = {SGX_ENCL_INITIALIZED})
        ~> (wpc = "lock" /\ w_page \in Pages)

\* C21: the step in which the worker fails a request marks the enclave DEAD,
\* puts the page of the request back on a free list and touches no queued
\* request; from then on no EADD is issued, every request that is dequeued
\* is dropped without an allocation, the put that ends it takes the
\* request's reference off the enclave, and while requests are queued the
\* worker is running or queued to run.
C21_AddFailure ==
    [][/\ (add_failed' /\ ~add_failed) =>
            /\ SGX_ENCL_DEAD \in flags'
            /\ w_skip' /\ wpc' = "put"
            /\ add_page_reqs' = add_page_reqs
            /\ w_page \in Pages =>
                  /\ \E i \in Sections : w_page \in SeqToSet(free_list'[i])
                  /\ owner'[w_page] = NoOwner
       /\ add_failed =>
            /\ eadd_log' = eadd_log
            /\ wpc' \notin {"alloc", "lock", "eadd"}
            /\ encl' = "live" => SGX_ENCL_DEAD \in flags'
            /\ deq_log' # deq_log => wpc' = "put"
            /\ (wpc = "put" /\ wpc' # "put") =>
                  \/ encl' = "live" /\ refcount' = refcount - 1
                  \/ encl' = "released" /\ refcount = 1
            /\ (encl = "live" /\ wpc = "idle" /\ add_page_reqs # <<>>) =>
                  work_pending
      ]_vars

\* C21 witness: the first of two requests failed before any EADD, the second
\* was dequeued and dropped; the queue is empty, the worker is idle, the
\* enclave is DEAD and every page of the pool is free.
C21_Witness ==
    /\ add_failed /\ encl = "live" /\ SGX_ENCL_DEAD \in flags
    /\ Len(deq_log) = 2 /\ eadd_log = <<>>
    /\ add_page_reqs = <<>> /\ wpc = "idle"
    /\ \A p \in Pages : \E i \in Sections : p \in SeqToSet(free_list[i])

\* C22: a page table entry is installed only while the enclave is
\* INITIALIZED and not DEAD and the address has a resident enclave page, and
\* the frame is the page bound to that enclave page; in every other state the
\* fault handler gives SIGBUS and no frame.
C22_FaultInstalls ==
    [][\A m \in MMs, a \in Addrs :
          /\ (pte'[m][a] # NIL /\ pte'[m][a] # pte[m][a]) =>
                /\ SGX_ENCL_INITIALIZED \in flags /\ SGX_ENCL_DEAD \notin flags
                /\ a \in page_tree /\ encl_pages[a].epc # NIL
                /\ pte'[m][a] = encl_pages[a].epc
                /\ encl_pages' = encl_pages /\ flags' = flags
          /\ (\/ SGX_ENCL_DEAD \in flags \/ SGX_ENCL_INITIALIZED \notin flags
              \/ a \notin page_tree \/ encl_pages[a].epc = NIL) =>
                sgx_vma_fault_call(Cur, m, a) =
                    [ret |-> "VM_FAULT_SIGBUS", frame |-> NIL]
      ]_vars

\* C22 witness: a fault has installed the page bound at an address of the
\* initialized enclave.
C22_Witness ==
    \E m \in MMs, a \in Addrs :
        /\ encl = "live" /\ flags = {SGX_ENCL_INITIALIZED}
        /\ a \in page_tree /\ encl_pages[a].epc # NIL
        /\ pte[m][a] = encl_pages[a].epc

\* C23 (as the specification states it): an enclave page with a page bound
\* to it has RECLAIMABLE set on that page exactly when it is not the SECS.
C23_ResidentIffReclaimable ==
    encl = "live" =>
        \A a \in EnclPageIds :
            encl_pages[a].epc # NIL =>
                (encl_pages[a].epc \in reclaimable <=> a # SECS)

\* C24: an SGX_IOC_ENCLAVE_INIT on an enclave whose SECS attributes have a bit
\* outside the allowed mask goes from sgx_encl_get straight to its return
\* with -EINVAL, without flush_work, the mutex or EINIT, and leaves the flags
\* alone; when the mask covers the attributes it goes on to flush_work; and
\* set_attribute adds the provision bit to the mask.
C24_AttributeCheck ==
    [][/\ (ipc = "idle" /\ ipc' # "idle") =>
            IF secs_attributes \ allowed_attributes # {}
            THEN /\ ipc' = "put" /\ i_ret' = "-EINVAL"
                 /\ flags' = flags /\ lock' = lock /\ einit' = einit
            ELSE ipc' = "flush" /\ i_ret' = "0"
       /\ allowed_attributes' # allowed_attributes =>
            /\ allowed_attributes' = allowed_attributes \cup {SGX_ATTR_PROVISIONKEY}
            /\ secs_attributes = {"MODE64BIT", SGX_ATTR_PROVISIONKEY} =>
                  secs_attributes \ allowed_attributes' = {}
       /\ secs_attributes' = secs_attributes
      ]_vars

\* C24 witness: the SECS asks for the provision key, which the mask does not
\* have: init is about to return -EINVAL and no flag is set.
C24_Witness ==
    /\ SGX_ATTR_PROVISIONKEY \in secs_attributes \ allowed_attributes
    /\ encl = "live" /\ ipc = "put" /\ i_ret = "-EINVAL" /\ flags = {}
    /\ lock = "free" /\ einit.calls = 0

\* A step of the reclaimer's batch.
ReclaimerStep == rpc' # rpc \/ ri' # ri \/ chunk' # chunk

\* C25: the second loop of sgx_reclaim_pages.  sgx_reclaimer_evict says no
\* exactly when the enclave is not dead and an address space on the mm list
\* reports the page young.  The page is then unselected: it leaves the batch,
\* it is the tail of the active list, still bound both ways, RECLAIMABLE set,
\* RECLAIMED clear, the reclaimer's reference dropped, and nothing is blocked,
\* written or freed.  A dead enclave's page is always selected and marked
\* RECLAIMED.  The later loops act on pages still in the batch only, never on
\* an unselected one.
C25_YoungUnselected ==
    [][/\ (rpc = "evict" /\ ReclaimerStep) =>
            LET p == chunk[ri]
                a == owner[p]
            IN /\ \A yg \in YoungChoices(a) :
                     sgx_reclaimer_evict(Cur, yg, a).ret
                         <=> (SGX_ENCL_DEAD \in flags \/ yg = {})
               /\ IF p \in unselected'
                  THEN /\ SGX_ENCL_DEAD \notin flags
                       /\ YoungChoices(a) # {{}}
                       /\ ~HeldByBatch(p)'
                       /\ sgx_active_page_list' = Append(sgx_active_page_list, p)
                       /\ owner'[p] = a /\ encl_pages'[a].epc = p
                       /\ p \in reclaimable'
                       /\ ~encl_pages'[a].reclaimed
                       /\ encl' = "live" /\ refcount' = refcount - 1
                       /\ UNCHANGED <<free_list, free_cnt, hw_vars, pte>>
                  ELSE /\ HeldByBatch(p)'
                       /\ encl_pages'[a].reclaimed
                       /\ sgx_active_page_list' = sgx_active_page_list
                       /\ refcount' = refcount
               /\ SGX_ENCL_DEAD \in flags => p \notin unselected'
       /\ (rpc \in {"zap", "eblock", "write", "put", "free"} /\ ReclaimerStep) =>
            /\ chunk[ri] # NIL
            /\ chunk[ri] \notin unselected
            /\ (zapped' \cup blocked' \cup ewbd' \cup evicted')
                   \ (zapped \cup blocked \cup ewbd \cup evicted)
                   \subseteq {chunk[ri], encl_pages[SECS].epc}
            /\ \A q \in Pages : (OnFreeList(q)' /\ ~OnFreeList(q)) =>
                   q \in {chunk[ri], encl_pages[SECS].epc}
            /\ \A q \in unselected :
                   /\ q \in zapped' \cup blocked' \cup ewbd' \cup evicted' =>
                          q \in zapped \cup blocked \cup ewbd \cup evicted
                   /\ OnFreeList(q)' => OnFreeList(q)
      ]_vars

\* C25 witness: the batch is over and the page it found young is back at the
\* tail of the active list, bound, RECLAIMABLE, neither blocked nor written.
C25_Witness ==
    /\ rpc = "idle" /\ unselected # {}
    /\ \E p \in unselected :
          /\ sgx_active_page_list # <<>>
          /\ sgx_active_page_list[Len(sgx_active_page_list)] = p
          /\ p \in reclaimable /\ owner[p] \in Addrs
          /\ encl_pages[owner[p]].epc = p /\ ~encl_pages[owner[p]].reclaimed
          /\ p \notin zapped \cup blocked \cup ewbd
    /\ encl = "live" /\ SGX_ENCL_DEAD \notin flags

\* The positions of the instruction op among those issued for the page.
OpsAt(op) == {i \in 1..Len(ewb.ops) : ewb.ops[i].op = op}

\* C26: the instructions sgx_encl_ewb has issued for the page it is at.
\* ETRACK comes right after a first EWB that returned SGX_NOT_TRACKED, the
\* IPI right after a second EWB, itself right after ETRACK, that returned
\* SGX_NOT_TRACKED again; an EWB that returned anything else is the last
\* instruction; there are at most three EWB, one ETRACK and one IPI, and all
\* of them name the version-array slot taken at the start.
C26_EscalationOrder ==
    LET ops == ewb.ops
    IN /\ \A i \in OpsAt("ETRACK") :
             /\ i = 2
             /\ ops[1].op = "EWB" /\ ops[1].ret = "SGX_NOT_TRACKED"
       /\ \A i \in OpsAt("IPI") :
             /\ i = 4
             /\ ops[2].op = "ETRACK"
             /\ ops[3].op = "EWB" /\ ops[3].ret = "SGX_NOT_TRACKED"
       /\ OpsAt("EWB") \subseteq {1, 3, 5}
       /\ \A i \in OpsAt("EWB") :
             ops[i].ret # "SGX_NOT_TRACKED" => i = Len(ops)
       /\ Cardinality(OpsAt("EWB")) <= 3
       /\ Cardinality(OpsAt("ETRACK")) <= 1
       /\ Cardinality(OpsAt("IPI")) <= 1
       /\ \A i \in 1..Len(ops) : ops[i].va_offset = ewb.va_offset
       /\ Len(ops) <= 5
       /\ (rpc = "ewb" /\ ewb.pc = "done" /\ OpsAt("EREMOVE") = {}
             /\ SGX_ENCL_DEAD \notin flags) =>
             /\ ops # <<>>
             /\ ops[Len(ops)].op = "EWB"
             /\ ops[Len(ops)].ret = "SGX_NOT_TRACKED" => Len(ops) = 5

\* C26 witness: the whole escalation has been gone through for a page, EWB,
\* ETRACK, EWB, the IPI and EWB, and the last EWB succeeded.
C26_Witness ==
    /\ rpc = "ewb" /\ ewb.pc = "done" /\ ~ewb.do_free
    /\ [i \in 1..Len(ewb.ops) |-> ewb.ops[i].op]
           = <<"EWB", "ETRACK", "EWB", "IPI", "EWB">>
    /\ ewb.ret = "0"
    /\ ewb.va_offset = 1

\* C27 (as the specification states it): a page whose write-back ended on an
\* error is dropped: it is on no free list and no allocation has it.
C27_FailedPageLeaked ==
    \A p \in ewb.lost : ~OnFreeList(p) /\ p # w_page

\* C28: ksgxswapd leaves its wait for a batch only when the free pages of all
\* sections are fewer than SGX_NR_HIGH_PAGES and the active list is not
\* empty; the batch is the first SGX_NR_TO_SCAN pages of the list, or all of
\* them when there are fewer, and the rest of the list stays in place; between
\* two batches it goes on exactly when the same test holds, and waits
\* otherwise.
C28_Watermarks ==
    [][/\ rpc = "idle" =>
            LET len == Len(sgx_active_page_list)
                n == IF len < SGX_NR_TO_SCAN THEN len ELSE SGX_NR_TO_SCAN
            IN /\ sgx_calc_free_cnt(Cur) < SGX_NR_HIGH_PAGES
               /\ len > 0
               /\ rpc' = "evict"
               /\ Len(chunk') <= SGX_NR_TO_SCAN
               /\ chunk' = SubSeq(sgx_active_page_list, 1, n)
               /\ sgx_active_page_list' = SubSeq(sgx_active_page_list, n + 1, len)
               /\ refcount' = refcount + n
       /\ rpc' = "idle" =>
            (ENABLED ksgxswapd)' <=>
                (sgx_calc_free_cnt(Cur)' < SGX_NR_HIGH_PAGES
                    /\ sgx_active_page_list' # <<>>)
      ]_vars

\* C28 witness: batches, one of them of SGX_NR_TO_SCAN pages, have raised the
\* free pages to the watermark and ksgxswapd waits although the active list
\* still has pages.
C28_Witness ==
    /\ rpc = "idle"
    /\ Cardinality(evicted) > SGX_NR_TO_SCAN
    /\ sgx_active_page_list # <<>>
    /\ sgx_calc_free_cnt(Cur) >= SGX_NR_HIGH_PAGES
    /\ ~ENABLED ksgxswapd

\* C29 (as the specification states it): the reference count of every entry
\* of the mm list is the number of enclave VMAs open in its address space.
C29_RefcountIsMappings ==
    encl = "live" =>
        \A m \in SeqToSet(mm_list) : mm_refcount[m] = Cardinality(vmas[m])

\* The life of one enclave in one address space up to its release, with the
\* reclaimer running: pages are added, marked, touched and reclaimed, and the
\* closing of the VMA, the end of an ioctl, of the worker or of a batch drops
\* the last reference.
NextRelease ==
    \/ sgx_ioc_enclave_create
    \/ \E a \in Addrs : sgx_ioc_enclave_add_page(a)
    \/ sgx_add_page_worker
    \/ sgx_add_page_worker_alloc_err
    \/ \E p \in Pages : sgx_mark_page_reclaimable(p)
    \/ sgx_ioc_enclave_init_get
    \/ sgx_encl_init
    \/ \E m \in MMs, v \in SUBSET Addrs : sgx_vma_close(m, v)
    \/ \E m \in MMs, a \in Addrs : sgx_vma_fault(m, a)
    \/ ksgxswapd

\* The worker and ksgxswapd are threads of their own and run whenever they
\* can; an init ioctl that has started runs to its return.
LiveRelease ==
    /\ Init /\ [][NextRelease]_vars
    /\ SF_vars(sgx_add_page_worker)
    /\ SF_vars(ksgxswapd)
    /\ SF_vars(sgx_encl_init)

\* Every page of the pool is on the free list of its section, unbound and off
\* the active list.
AllPagesFree ==
    /\ \A p \in Pages : OnFreeList(p) /\ owner[p] = NoOwner /\ p \notin reclaimable
    /\ sgx_active_page_list = <<>>
    /\ \A a \in EnclPageIds : encl_pages[a].epc = NIL

C31_EveryRequestDequeued ==
    \A n \in 1..NumAddrs :
        (Len(enq_log) >= n) ~> (Len(deq_log) >= n /\ (wpc \in {"idle", "loop"} \/ Len(deq_log) > n))

(* ------------------- the lock protocol, one wait at a time -------------- *)
\* The address spaces whose mmap_sem is held for reading: by the reclaimer in
\* a walk of the mm list, and by the page fault that calls sgx_vma_fault.
ReadHeld == {r_sem, f_at[1]} \ {NIL}

WalkOff == [on |-> FALSE, mms |-> <<>>]

\* The second loop of sgx_reclaim_pages once sgx_reclaimer_evict has returned
\* ret for the page in slot ri, leaving the enclave as st.
sgx_reclaim_pages_evict_end(ret, st) ==
    LET p == chunk[ri]
        c == IF ret THEN chunk ELSE [chunk EXCEPT ![ri] = NIL]
    IN /\ Commit(IF ret THEN st ELSE sgx_reclaim_pages_unselect(st, p))
       /\ unselected' = IF ret THEN unselected ELSE unselected \cup {p}
       /\ ewb' = ewb
       /\ IF ri < Len(chunk)
          THEN rpc' = "evict" /\ ri' = ri + 1 /\ chunk' = c
          ELSE IF NextSlot(c, 0) = 0
          THEN rpc' = "idle" /\ ri' = 0 /\ chunk' = <<>>
          ELSE rpc' = "zap" /\ ri' = NextSlot(c, 0) /\ chunk' = c

\* sgx_reclaimer_evict, the head of its loop: sgx_encl_next_mm and
\* down_read(&next_mm->mm->mmap_sem), which waits while the semaphore is held
\* for writing; at the end of the list the page is marked reclaimed.
sgx_reclaimer_evict_next ==
    /\ rpc = "evict"
    /\ r_sem = NIL
    /\ LET w == IF r_walk.on THEN r_walk.mms ELSE mm_list
           a == owner[chunk[ri]]
       IN IF w = <<>>
          THEN /\ sgx_reclaim_pages_evict_end(
                     TRUE, [Cur EXCEPT !.encl_pages[a].reclaimed = TRUE])
               /\ r_walk' = WalkOff
               /\ UNCHANGED r_sem
          ELSE /\ Head(w) \notin sem_held
               /\ r_sem' = Head(w)
               /\ r_walk' = [on |-> TRUE, mms |-> Tail(w)]
               /\ UNCHANGED <<pool_vars, encl_vars, hw_vars, reclaim_vars>>
    /\ UNCHANGED <<create_vars, npc, f_at, vm_vars, worker_vars, init_vars, open_vars, log_vars,
                   add_page_reqs, work_pending, lock>>

\* sgx_reclaimer_evict, the body of its loop: mutex_lock(&encl->lock) with
\* mmap_sem held, the tests, and the release of both.
sgx_reclaimer_evict_locked ==
    /\ rpc = "evict"
    /\ r_sem # NIL
    /\ lock = "free"
    /\ LET a == owner[chunk[ri]]
       IN \E young \in (IF pte[r_sem][a] # NIL THEN BOOLEAN ELSE {FALSE}) :
            IF SGX_ENCL_DEAD \in flags
            THEN /\ sgx_reclaim_pages_evict_end(
                       TRUE, [Cur EXCEPT !.encl_pages[a].reclaimed = TRUE])
                 /\ r_walk' = WalkOff
            ELSE IF young
            THEN /\ sgx_reclaim_pages_evict_end(FALSE, Cur)
                 /\ r_walk' = WalkOff
            ELSE UNCHANGED <<pool_vars, encl_vars, hw_vars, reclaim_vars, r_walk>>
    /\ r_sem' = NIL
    /\ UNCHANGED <<create_vars, npc, f_at, vm_vars, worker_vars, init_vars, open_vars, log_vars,
                   add_page_reqs, work_pending, lock>>

\* sgx_reclaimer_block, the head of its first loop: sgx_encl_next_mm and
\* down_read; at the end of the list the walk is over.
sgx_reclaimer_block_next ==
    /\ rpc = "zap"
    /\ r_sem = NIL
    /\ LET w == IF r_walk.on THEN r_walk.mms ELSE mm_list
       IN IF w = <<>>
          THEN /\ rpc' = "eblock"
               /\ zapped' = zapped \cup {chunk[ri]}
               /\ r_walk' = WalkOff
               /\ UNCHANGED r_sem
          ELSE /\ Head(w) \notin sem_held
               /\ r_sem' = Head(w)
               /\ r_walk' = [on |-> TRUE, mms |-> Tail(w)]
               /\ UNCHANGED <<rpc, zapped>>
    /\ UNCHANGED <<create_vars, npc, f_at, pool_vars, encl_vars, blocked, ewbd, evicted, vm_vars,
                   worker_vars, init_vars, open_vars, chunk, ri, unselected, ewb,
                   log_vars, add_page_reqs, work_pending, lock>>

\* sgx_reclaimer_block, the body of its first loop: mutex_lock with mmap_sem
\* held, zap_vma_ptes if the address space maps the page, release of both.
sgx_reclaimer_block_locked ==
    /\ rpc = "zap"
    /\ r_sem # NIL
    /\ lock = "free"
    /\ LET a == owner[chunk[ri]]
       IN pte' = IF r_sem \in Mapping(a) THEN [pte EXCEPT ![r_sem][a] = NIL] ELSE pte
    /\ r_sem' = NIL
    /\ UNCHANGED <<create_vars, npc, f_at, r_walk, pool_vars, encl_vars, hw_vars, vmas, worker_vars,
                   init_vars, open_vars, reclaim_vars, log_vars, add_page_reqs,
                   work_pending, lock>>

\* A page fault at address a of address space m enters sgx_vma_fault: the
\* fault path holds the mmap_sem of m for reading.
sgx_vma_fault_enter(m, a) ==
    /\ encl = "live"
    /\ f_at[1] = NIL
    /\ m \in Mapping(a)
    /\ m \notin sem_held
    /\ pte[m][a] = NIL
    /\ f_at' = <<m, a>>
    /\ UNCHANGED <<create_vars, npc, r_sem, r_walk, pool_vars, encl_vars, hw_vars, vm_vars,
                   worker_vars, init_vars, open_vars, reclaim_vars, log_vars,
                   add_page_reqs, work_pending, lock>>

\* sgx_vma_fault from mutex_lock(&encl->lock) to its return.
sgx_vma_fault_locked ==
    /\ f_at[1] # NIL
    /\ lock = "free"
    /\ LET r == sgx_vma_fault_call(Cur, f_at[1], f_at[2])
       IN pte' = IF r.ret = "VM_FAULT_NOPAGE"
                 THEN [pte EXCEPT ![f_at[1]][f_at[2]] = r.frame]
                 ELSE pte
    /\ f_at' = <<NIL, NIL>>
    /\ UNCHANGED <<create_vars, npc, r_sem, r_walk, pool_vars, encl_vars, hw_vars, vmas,
                   worker_vars, init_vars, open_vars, reclaim_vars, log_vars,
                   add_page_reqs, work_pending, lock>>

\* sgx_encl_pm_notifier from mutex_lock to mutex_unlock.
sgx_encl_pm_notifier_locked ==
    /\ encl = "live"
    /\ npc = "idle"
    /\ lock = "free"
    /\ LET s == sgx_encl_destroy(Cur)
       IN Commit([s EXCEPT !.flags = @ \cup {SGX_ENCL_SUSPEND},
                           !.suspended = TRUE])
    /\ npc' = "flush"
    /\ UNCHANGED <<create_vars, f_at, r_sem, r_walk, vm_vars, worker_vars, init_vars, open_vars,
                   reclaim_vars, log_vars, add_page_reqs, work_pending, lock>>

\* sgx_encl_pm_notifier: flush_work(&encl->work) returns once the worker is
\* neither queued nor running.
sgx_encl_pm_notifier_flush ==
    /\ npc = "flush"
    /\ wpc = "idle" /\ ~work_pending
    /\ npc' = "idle"
    /\ UNCHANGED <<create_vars, f_at, r_sem, r_walk, pool_vars, encl_vars, hw_vars, vm_vars,
                   worker_vars, init_vars, open_vars, reclaim_vars, log_vars,
                   add_page_reqs, work_pending, lock>>

\* Every thread of the driver with each wait on a lock, on the allocator and
\* on the worker as a step of its own.  mmap_sem is taken for writing by the
\* fork that calls sgx_vma_open, which waits for its readers; no address
\* space is unmapped.
NextLocks ==
    \/ sgx_ioc_enclave_create
    \/ \E a \in Addrs : sgx_ioc_enclave_add_page(a)
    \/ sgx_add_page_worker
    \/ \E p \in Pages : sgx_mark_page_reclaimable(p)
    \/ sgx_ioc_enclave_init_get
    \/ sgx_encl_init
    \/ sgx_encl_pm_notifier_locked
    \/ sgx_encl_pm_notifier_flush
    \/ \E m \in MMs : \E src \in MMs \ {m}, v \in SUBSET Addrs :
          {m, src} \cap ReadHeld = {} /\ sgx_vma_open(m, src, v)
    \/ sgx_vma_open_dead
    \/ \E m \in MMs, a \in Addrs : sgx_vma_fault_enter(m, a)
    \/ sgx_vma_fault_locked
    \/ sgx_reclaim_pages_scan
    \/ sgx_reclaimer_evict_next
    \/ sgx_reclaimer_evict_locked
    \/ sgx_reclaimer_block_next
    \/ sgx_reclaimer_block_locked
    \/ sgx_reclaimer_block_eblock
    \/ sgx_reclaim_pages_write
    \/ sgx_reclaim_pages_put
    \/ sgx_reclaim_pages_section_put

SpecLocks == Init /\ [][NextLocks]_vars

(* ------------------------------- waits ---------------------------------- *)
DriverThreads == {"worker", "init", "notifier", "reclaimer", "fault", "opener"}

\* The thread that holds encl->lock, if any.
MutexHolder == IF lock = "free" THEN {} ELSE {lock}

\* flush_work(&encl->work) waits while the work is queued or running.
WorkerBusy == wpc # "idle" \/ work_pending

\* The threads that thread t waits for in this state: the holder of a lock
\* it is about to take, the reclaimer when it is in the allocator with every
\* free list empty, the worker when it is in flush_work.
WaitsFor(t) ==
    CASE t = "worker" ->
           IF wpc = "alloc"
           THEN IF \A i \in Sections : free_list[i] = <<>> THEN {"reclaimer"} ELSE {}
           ELSE IF wpc \in {"lock", "loop"} \/ (wpc = "idle" /\ work_pending)
           THEN MutexHolder
           ELSE {}
      [] t = "init" ->
           IF ipc = "flush" THEN (IF WorkerBusy THEN {"worker"} ELSE {})
           ELSE IF ipc = "lock" THEN MutexHolder
           ELSE {}
      [] t = "notifier" ->
           IF npc = "flush" /\ WorkerBusy THEN {"worker"} ELSE {}
      [] t = "reclaimer" ->
           IF rpc \in {"evict", "zap"}
           THEN IF r_sem # NIL THEN MutexHolder
                ELSE LET w == IF r_walk.on THEN r_walk.mms ELSE mm_list
                     IN IF w # <<>> /\ Head(w) \in sem_held THEN {"opener"} ELSE {}
           ELSE IF rpc \in {"eblock", "write"} THEN MutexHolder
           ELSE {}
      [] t = "fault" ->
           IF f_at[1] # NIL THEN MutexHolder ELSE {}
      [] OTHER -> {}

\* The threads reached from the set S along at most n waits.
RECURSIVE WaitChain(_, _)
WaitChain(S, n) ==
    IF n = 0 THEN S
    ELSE WaitChain(S \cup UNION {WaitsFor(u) : u \in S}, n - 1)

InWaitCycle(t) == t \in WaitChain(WaitsFor(t), Cardinality(DriverThreads))

sgx_ioc_enclave_create_alloc(c) ==
    /\ cpc[c] = "idle"
    /\ \E e \in EnclIds :
         /\ encls[e].state = "unused"
         /\ \A x \in EnclIds : x < e => encls[x].state # "unused"
         /\ \E alloc_ok \in BOOLEAN, ecreate_ok \in BOOLEAN :
              LET r == sgx_alloc_page(Cur, SECS)
                  ok == alloc_ok /\ ecreate_ok
              IN /\ alloc_ok => r.page # NIL
                 /\ Commit(IF alloc_ok THEN r.st ELSE Cur)
                 /\ encls' = [encls EXCEPT ![e] =
                                 [state |-> "allocated", refcount |-> 1,
                                  secs |-> IF alloc_ok THEN r.page ELSE NIL,
                                  ret |-> IF ok THEN "none" ELSE "error"]]
                 /\ cpc' = [cpc EXCEPT ![c] = IF ok THEN "find" ELSE "put"]
         /\ c_encl' = [c_encl EXCEPT ![c] = e]
    /\ UNCHANGED <<lock_vars, vm_private_data, installed, vm_vars, worker_vars,
                   init_vars, open_vars, reclaim_vars, log_vars, add_page_reqs,
                   work_pending, lock>>

\* sgx_encl_create: down_read(&current->mm->mmap_sem), sgx_encl_find and the
\* test of the VMA's bounds.  vma_ok: the mapping exists and spans exactly the
\* range of the SECS.  The thread that goes on holds mmap_sem for reading.
sgx_encl_create_find(c) ==
    /\ cpc[c] = "find"
    /\ \E vma_ok \in BOOLEAN :
         IF vma_ok /\ vm_private_data = NIL
         THEN cpc' = [cpc EXCEPT ![c] = "install"] /\ UNCHANGED encls
         ELSE /\ cpc' = [cpc EXCEPT ![c] = "put"]
              /\ encls' = [encls EXCEPT ![c_encl[c]].ret = "-EINVAL"]
    /\ UNCHANGED <<lock_vars, c_encl, vm_private_data, installed, pool_vars,
                   encl_vars, hw_vars, vm_vars, worker_vars, init_vars, open_vars,
                   reclaim_vars, log_vars, add_page_reqs, work_pending, lock>>

\* sgx_encl_create: vma->vm_private_data = encl, up_read, return 0.
sgx_encl_create_install(c) ==
    /\ cpc[c] = "install"
    /\ vm_private_data' = c_encl[c]
    /\ installed' = Append(installed, c_encl[c])
    /\ encls' = [encls EXCEPT ![c_encl[c]].ret = "0"]
    /\ cpc' = [cpc EXCEPT ![c] = "idle"]
    /\ c_encl' = [c_encl EXCEPT ![c] = NIL]
    /\ UNCHANGED <<lock_vars, pool_vars, encl_vars, hw_vars, vm_vars, worker_vars,
                   init_vars, open_vars, reclaim_vars, log_vars, add_page_reqs,
                   work_pending, lock>>

\* sgx_ioc_enclave_create after a failed sgx_encl_create: kref_put drops the
\* only reference and sgx_encl_release frees the SECS page, if there is one,
\* and the enclave.
sgx_ioc_enclave_create_put(c) ==
    /\ cpc[c] = "put"
    /\ LET e == c_encl[c]
       IN /\ Commit(IF encls[e].secs # NIL THEN sgx_free_page(Cur, encls[e].secs)
                    ELSE Cur)
          /\ encls' = [encls EXCEPT ![e].state = "released", ![e].refcount = 0,
                                    ![e].secs = NIL]
    /\ cpc' = [cpc EXCEPT ![c] = "idle"]
    /\ c_encl' = [c_encl EXCEPT ![c] = NIL]
    /\ UNCHANGED <<lock_vars, vm_private_data, installed, vm_vars, worker_vars,
                   init_vars, open_vars, reclaim_vars, log_vars, add_page_reqs,
                   work_pending, lock>>

\* Threads of one process calling SGX_IOC_ENCLAVE_CREATE for the range of the
\* same mapping, at the same time or one after the other.
NextCreate ==
    \E c \in Creators :
       \/ sgx_ioc_enclave_create_alloc(c)
       \/ sgx_encl_create_find(c)
       \/ sgx_encl_create_install(c)
       \/ sgx_ioc_enclave_create_put(c)

SpecCreate == Init /\ [][NextCreate]_vars

\* C33 (as the specification states it): at most one enclave is ever stored
\* as the private data of the mapping and at most one create returns 0; a
\* create that finds an enclave there returns -EINVAL and its own enclave and
\* SECS page are released; and an enclave that is still allocated when its
\* create has returned is the one the mapping points to.
C33_OneEnclavePerMapping ==
    /\ Len(installed) <= 1
    /\ Cardinality({e \in EnclIds : encls[e].ret = "0"}) <= 1
    /\ \A e \in EnclIds :
         (encls[e].ret = "-EINVAL" /\ \A c \in Creators : c_encl[c] # e)
           => /\ encls[e].state = "released"
              /\ \A p \in Pages : owner[p] # NoOwner => p \in {encls[x].secs : x \in EnclIds}
    /\ \A e \in EnclIds :
         (encls[e].state = "allocated" /\ \A c \in Creators : c_encl[c] # e)
           => vm_private_data = e
=============================================================================
